---------------------------- MODULE Spec2Model ----------------------------
(***************************************************************************)
(* Model of the per-frame effect engine of the landing page:               *)
(*   - boundaryAnimation (src/js/boundary-animation.js): the path tracer   *)
(*     getPointOnPath and the init / startAnimation / animate / stop       *)
(*     life cycle;                                                         *)
(*   - LandingAnimation (src/js/landing-animation.js): the tracer over a   *)
(*     precomputed cumulative-distance table;                              *)
(*   - VideoScanEffect (src/unnamed/part_000): the line-band scan.         *)
(*                                                                         *)
(* JavaScript numbers are modelled as exact fractions n/d in lowest terms, *)
(* extended with the IEEE special values the code can produce:             *)
(*   0/0 = NaN, 1/0 = +Infinity, -1/0 = -Infinity.                         *)
(* Rounding of binary floating point is not modelled; the polygons are     *)
(* chosen with edges of rational length so that Math.sqrt is exact.        *)
(***************************************************************************)
EXTENDS Integers, Sequences, FiniteSets, TLC

VARIABLES
    \* ---- path tracer called as a function (SpecTrace) ----
    polygonPoints,   \* boundaryAnimation.polygonPoints
    progress,        \* the progress argument of the getPointOnPath call
    point,           \* the value the call returned
    tracePc,         \* "ready" before the call, "returned" after it
    \* ---- LandingAnimation ----
    vertices,        \* this.vertices
    distances,       \* this.distances: cumulative lengths, from 0
    totalDistance,   \* this.totalDistance
    boundaryPoint,   \* <<cx, cy>> of the marker element, <<>> while unset
    \* ---- boundaryAnimation life cycle (SpecBoundary) ----
    svgInDocument,   \* the page holds the element lot-boundary-svg
    initAwaiting,    \* init() calls suspended at await loadPolygonFromGeoJSON()
    svgPoints,       \* <<points of the generated polygon element>>, <<>> if none
    isRunning,       \* boundaryAnimation.isRunning
    startTime,       \* boundaryAnimation.startTime (ms), NaN while null
    animationFrameId, \* boundaryAnimation.animationFrameId, 0 while null
    pendingFrames,   \* ids of the frame callbacks not yet run nor cancelled
    now,             \* performance.now() (ms)
    tracePoint,      \* <<cx, cy of the marker>>, <<>> before it is created
    traceLine,       \* the points of the trail path, <<>> before any
    traceGradient,   \* <<back point, front point>>, <<>> before any
    lastError,       \* the last error raised: "none", "load" or "TypeError"
    stopCalled,      \* the page's last call on boundaryAnimation was stop()
    \* ---- VideoScanEffect, line-band scan (SpecScan) ----
    videoSize,       \* <<videoWidth, videoHeight>>, <<0, 0>> before the metadata
    readyState,      \* videoElement.readyState
    canvas,          \* <<canvas.width, canvas.height>>
    isAnimating,     \* this.isAnimating
    animationStartTime, \* this.animationStartTime (clock steps), -1 while null
    scanNow,         \* performance.now() (clock steps)
    frameQueue,      \* animate callbacks still to run in the current frame
    frameNext,       \* animate callbacks requested for the next frame
    pattern,         \* pattern.scrollPixels of the last drawReveal
    blackLines,      \* the y of every line the last drawReveal painted black
    videoDrawn,      \* the last drawReveal drew the video frame
    \* ---- the per-frame progress and the curves fed by it (SpecCurve) ----
    curveStart,      \* the clock baseline: performance.now() at the start (ms)
    curveNow,        \* performance.now() (ms)
    curveFrames,     \* frames computed (SpecCurve) or displayed (SpecDissolve) so far
    matrixProgress,  \* progress of the frame, matrix dissolve (60 s cycle)
    density,         \* getPixelDensity(progress) of the frame
    waveProgress,    \* progress of the frame, serpentine wave (30 s cycle)
    waveCenter,      \* getSerpentinePosition(progress) of the frame
    boundaryProgress, \* progress of the frame, boundary trace (600 s cycle)
    landingProgress, \* progress of the frame, LandingAnimation (video time)
    \* ---- the exclusion zones of the matrix dissolve (SpecZone) ----
    polygonBounds,   \* this.polygonBounds: null or the polygon on the canvas
    bubbleZones,     \* this.bubbleZones
    layout,          \* the rectangles of the svg element and of the canvas
    bubbles,         \* the rectangles of the .nav-bubble elements
    polling,         \* checkBoundary is still scheduled
    probeIndex,      \* points tested so far in the pass over the surface
    testPoint,       \* the point of the last containment tests
    inPolygon,       \* what isPointInPolygon returned for it
    inBubble,        \* what isPointInBubble returned for it
    \* ---- the effects of part_001 (SpecLines) ----
    strategy,        \* which class the page loaded: moving lines or serpentine
    marks,           \* what the last frame left on the surface over the black
    \* ---- the two-sided line-band scan of part_002 (SpecSides) ----
    sides,           \* the left and the right instance, <<>> when not loaded
    \* ---- the matrix dissolve (SpecMatrix) ----
    columns,         \* this.columns
    lastElapsed,     \* elapsed as the last frame computed it (ms)
    lastProgress,    \* progress as the last frame computed it
    lastOp           \* the last operation run on the instance

landingVars == <<vertices, distances, totalDistance, boundaryPoint>>
traceVars == <<progress, point, tracePc, landingVars>>
boundaryVars == <<svgInDocument, initAwaiting, svgPoints, isRunning,
                  startTime, animationFrameId, pendingFrames, now, tracePoint,
                  traceLine, traceGradient, lastError, stopCalled>>
scanVars == <<videoSize, readyState, canvas, isAnimating, animationStartTime,
              scanNow, frameQueue, frameNext, pattern, blackLines,
              videoDrawn>>
curveVars == <<curveStart, curveNow, curveFrames, matrixProgress, density,
               waveProgress, waveCenter, boundaryProgress, landingProgress>>
zoneVars == <<polygonBounds, bubbleZones, layout, bubbles, polling, probeIndex,
              testPoint,
              inPolygon, inBubble>>
linesVars == <<strategy, marks, sides>>
matrixVars == <<columns, lastElapsed, lastProgress, lastOp>>
effectVars == <<curveVars, zoneVars, linesVars, matrixVars>>
vars == <<polygonPoints, traceVars, boundaryVars, scanVars, effectVars>>

(***************************************************************************)
(* Bounds of the model.                                                    *)
(***************************************************************************)
MaxSize == 2     \* side lengths of the generated polygons: 1..MaxSize
MaxDen == 8      \* progress values k/d with d <= MaxDen
MaxShift == 1    \* integer shifts added to a progress value: 1..MaxShift
MaxInits == 1    \* init() calls that may be awaiting the load at one time
TicksPerCycle == 2  \* clock steps per cycle of the boundary trace
MaxTicks == 2    \* clock steps taken in one behaviour
MaxTrailTicks == 2  \* clock steps of a twenty-fifth of a cycle in one behaviour
MaxHeight == 30  \* video heights from one band cycle (28 px) to MaxHeight
ScanStepsPerCycle == 15  \* clock steps per cycle of the line-band scan
MaxScanSteps == 16  \* clock steps taken in one behaviour of the scan
MaxCallbacks == 3  \* animate callbacks pending at one time
MaxCurveFrames == 6  \* frames computed in one behaviour of the clock
MaxGrid == 10  \* tested points have coordinates k/2, k from -2 to MaxGrid
MaxMatrixFrames == 2  \* displayed frames in one behaviour of the matrix dissolve
MaxMatrixCallbacks == 2  \* animate callbacks of the matrix dissolve pending at one time
MaxDissolveFrames == 1  \* displayed frames in one behaviour of the dissolve with zones
MaxSweepFrames == 2  \* displayed frames in one behaviour of the column sweep
MaxFragments == 3  \* fragments of the polygon reveal along one axis
SideStepsPerCycle == 4  \* clock steps per cycle of the two-sided scan
MaxSideSteps == 4  \* displayed frames in one behaviour of the two-sided scan
MaxSideCallbacks == 2  \* animate callbacks of one side pending at one time

(***************************************************************************)
(* JavaScript number arithmetic on fractions.                              *)
(***************************************************************************)
Abs(i) == IF i < 0 THEN -i ELSE i
Sign(i) == IF i > 0 THEN 1 ELSE IF i < 0 THEN -1 ELSE 0

RECURSIVE GCD(_, _)
GCD(a, b) == IF b = 0 THEN a ELSE GCD(b, a % b)

\* the number n/d in lowest terms with a positive denominator; d = 0 gives
\* NaN (n = 0) or an infinity
Num(n, d) ==
    IF d = 0 THEN [n |-> Sign(n), d |-> 0]
    ELSE LET g == GCD(Abs(n), Abs(d))
         IN  [n |-> Sign(d) * (n \div g), d |-> Abs(d) \div g]

Whole(i) == [n |-> i, d |-> 1]
Zero == Whole(0)
One == Whole(1)
NaN == [n |-> 0, d |-> 0]
IsNaN(a) == a.d = 0 /\ a.n = 0
IsFinite(a) == a.d > 0

Neg(a) == [n |-> -a.n, d |-> a.d]
Add(a, b) ==
    IF a.d = 0 /\ b.d = 0 THEN (IF a.n = b.n THEN a ELSE NaN)
    ELSE LET g == GCD(a.d, b.d)
         IN  Num(a.n * (b.d \div g) + b.n * (a.d \div g), (a.d \div g) * b.d)
Sub(a, b) == Add(a, Neg(b))
Mul(a, b) ==
    IF a.d = 0 \/ b.d = 0 THEN Num(a.n * b.n, 0)
    ELSE LET g1 == GCD(Abs(a.n), b.d)
             g2 == GCD(Abs(b.n), a.d)
         IN  Num((a.n \div g1) * (b.n \div g2), (a.d \div g2) * (b.d \div g1))
Inv(b) ==
    IF b.d = 0 THEN (IF b.n = 0 THEN NaN ELSE Zero)
    ELSE IF b.n = 0 THEN [n |-> 1, d |-> 0]
    ELSE Num(b.d, b.n)
\* a / b: x/0 is an infinity for x # 0 and NaN for x = 0
Div(a, b) == Mul(a, Inv(b))

\* a <= b; every comparison with NaN is false
Leq(a, b) ==
    /\ ~IsNaN(a)
    /\ ~IsNaN(b)
    /\ IF a.d = 0 /\ b.d = 0 THEN a.n <= b.n
       ELSE IF a.d = 0 THEN a.n < 0
       ELSE IF b.d = 0 THEN b.n > 0
       ELSE LET g == GCD(a.d, b.d)
            IN  a.n * (b.d \div g) <= b.n * (a.d \div g)
Geq(a, b) == Leq(b, a)
Lt(a, b) == Leq(a, b) /\ a # b
Gt(a, b) == Lt(b, a)

\* floor of the square root of a natural number
RECURSIVE ISqrt(_)
ISqrt(n) ==
    IF n < 2 THEN n
    ELSE LET s == 2 * ISqrt(n \div 4)
         IN  IF (s + 1) * (s + 1) > n THEN s ELSE s + 1

\* Math.sqrt; exact on the squares of fractions, which is all the model
\* hands to it
Sqrt(a) ==
    IF IsNaN(a) \/ a.n < 0 THEN NaN
    ELSE IF a.d = 0 THEN a
    ELSE Num(ISqrt(a.n), ISqrt(a.d))

\* Math.floor
Floor(a) == IF a.d = 0 THEN a ELSE Whole(a.n \div a.d)

\* the % operator: the remainder has the sign of the dividend
Rem(a, b) ==
    IF a.d = 0 \/ IsNaN(b) \/ b.n = 0 THEN NaN
    ELSE IF b.d = 0 THEN a
    ELSE LET q == Div(a, b)
             t == IF q.n >= 0 THEN q.n \div q.d ELSE -((-q.n) \div q.d)
         IN  Sub(a, Mul(Whole(t), b))

(***************************************************************************)
(* Points and the path tracer of boundaryAnimation.                        *)
(***************************************************************************)
Pt(x, y) == [x |-> Whole(x), y |-> Whole(y)]

\* the value of polygonPoints[0] when the list is empty
undefined == [x |-> [n |-> 0, d |-> -1], y |-> [n |-> 0, d |-> -1]]

distance(p1, p2) ==
    LET dx == Sub(p2.x, p1.x)
        dy == Sub(p2.y, p1.y)
    IN  Sqrt(Add(Mul(dx, dx), Mul(dy, dy)))

\* a copy-and-paste slip: y advances by the x extent of the edge
interpolateXY(p1, p2, t) ==
    [x |-> Add(p1.x, Mul(Sub(p2.x, p1.x), t)),
     y |-> Add(p1.y, Mul(Sub(p2.x, p1.x), t))]

interpolate(p1, p2, t) ==
    [x |-> Add(p1.x, Mul(Sub(p2.x, p1.x), t)),
     y |-> Add(p1.y, Mul(Sub(p2.y, p1.y), t))]

\* polygonPoints[(i + 1) % length], with 1-based i
NextVertex(pts, i) == pts[(i % Len(pts)) + 1]

RECURSIVE PerimeterFrom(_, _, _)
PerimeterFrom(pts, i, perimeter) ==
    IF i > Len(pts) THEN perimeter
    ELSE PerimeterFrom(pts, i + 1,
                       Add(perimeter, distance(pts[i], NextVertex(pts, i))))

\* the perimeter of the open path: the edge back to the first vertex is left out
calculatePerimeterOpen(pts) ==
    IF Len(pts) = 0 THEN Zero
    ELSE Sub(PerimeterFrom(pts, 1, Zero), distance(pts[Len(pts)], pts[1]))

calculatePerimeter(pts) == PerimeterFrom(pts, 1, Zero)

\* the scan with the offset of the edge forgotten: the fraction along the
\* edge is taken from the whole target distance
RECURSIVE ScanPathNoOffset(_, _, _, _)
ScanPathNoOffset(pts, i, currentDistance, targetDistance) ==
    IF i > Len(pts)
    THEN (IF Len(pts) = 0 THEN undefined ELSE pts[1])
    ELSE LET p1 == pts[i]
             p2 == NextVertex(pts, i)
             segmentLength == distance(p1, p2)
         IN  IF Geq(Add(currentDistance, segmentLength), targetDistance)
             THEN interpolate(p1, p2, Div(targetDistance, segmentLength))
             ELSE ScanPathNoOffset(pts, i + 1,
                      Add(currentDistance, segmentLength), targetDistance)

\* the for loop of getPointOnPath from edge i on
RECURSIVE ScanPath(_, _, _, _)
ScanPath(pts, i, currentDistance, targetDistance) ==
    IF i > Len(pts)
    THEN (IF Len(pts) = 0 THEN undefined ELSE pts[1])
    ELSE LET p1 == pts[i]
             p2 == NextVertex(pts, i)
             segmentLength == distance(p1, p2)
         IN  IF Geq(Add(currentDistance, segmentLength), targetDistance)
             THEN interpolate(p1, p2,
                      Div(Sub(targetDistance, currentDistance), segmentLength))
             ELSE ScanPath(pts, i + 1, Add(currentDistance, segmentLength),
                           targetDistance)

\* the tracer as section 4.2 words it: the argument is reduced modulo 1
getPointOnPathReduced(pts, p) ==
    ScanPath(pts, 1, Zero, Mul(calculatePerimeter(pts), Rem(p, One)))

getPointOnPath(pts, p) ==
    ScanPath(pts, 1, Zero, Mul(calculatePerimeter(pts), p))

(***************************************************************************)
(* LandingAnimation: the tracer over a cumulative-distance table.          *)
(***************************************************************************)
\* parsePolygonVertices(), lines 57-73: <<0, d1, d1 + d2, ..., total>>; the
\* last entry closes the loop back to the first vertex
RECURSIVE CumulativeFrom(_, _, _)
CumulativeFrom(vs, i, table) ==
    IF i > Len(vs) THEN table
    ELSE CumulativeFrom(vs, i + 1,
             Append(table, Add(table[Len(table)],
                               distance(vs[i], NextVertex(vs, i)))))

\* an empty points attribute leaves the table empty (line 48)
parsePolygonVertices(vs) ==
    IF Len(vs) = 0 THEN <<>> ELSE CumulativeFrom(vs, 1, <<Zero>>)

\* lines 126-132: the first segment that holds the target, segment 0 if none
RECURSIVE SegmentIndex(_, _, _)
SegmentIndex(table, targetDist, i) ==
    IF i > Len(table) - 1 THEN 1
    ELSE IF Geq(targetDist, table[i]) /\ Leq(targetDist, table[i + 1]) THEN i
    ELSE SegmentIndex(table, targetDist, i + 1)

\* the marker placement that ends the last edge where it starts
updatePointPositionOpen(vs, table, total, p) ==
    LET targetDist == Mul(p, total)
        segmentIndex == SegmentIndex(table, targetDist, 1)
        segmentStart == table[segmentIndex]
        segmentEnd == table[segmentIndex + 1]
        segmentProgress ==
            Div(Sub(targetDist, segmentStart), Sub(segmentEnd, segmentStart))
        v1 == vs[segmentIndex]
        v2 == IF segmentIndex < Len(vs) THEN vs[segmentIndex + 1] ELSE v1
    IN  <<Add(v1.x, Mul(Sub(v2.x, v1.x), segmentProgress)),
          Add(v1.y, Mul(Sub(v2.y, v1.y), segmentProgress))>>

\* updatePointPosition() for a video progress p, lines 123-149
updatePointPosition(vs, table, total, p) ==
    LET targetDist == Mul(p, total)
        segmentIndex == SegmentIndex(table, targetDist, 1)
        segmentStart == table[segmentIndex]
        segmentEnd == table[segmentIndex + 1]
        segmentProgress ==
            Div(Sub(targetDist, segmentStart), Sub(segmentEnd, segmentStart))
        v1 == vs[segmentIndex]
        v2 == IF segmentIndex < Len(vs) THEN vs[segmentIndex + 1] ELSE vs[1]
    IN  <<Add(v1.x, Mul(Sub(v2.x, v1.x), segmentProgress)),
          Add(v1.y, Mul(Sub(v2.y, v1.y), segmentProgress))>>

(***************************************************************************)
(* Vertex lists handed to the tracer.                                      *)
(***************************************************************************)
Sizes == 1..MaxSize

Rect(w, h) == <<Pt(0, 0), Pt(w, 0), Pt(w, h), Pt(0, h)>>
Tri(s) == <<Pt(0, 0), Pt(3 * s, 0), Pt(3 * s, 4 * s)>>
LShape(s) == <<Pt(0, 0), Pt(2 * s, 0), Pt(2 * s, s), Pt(s, s),
               Pt(s, 2 * s), Pt(0, 2 * s)>>
Seg(s) == <<Pt(1, 2), Pt(1 + s, 2)>>

\* the polygon of the end-to-end scenario of section 8
Square == <<Pt(0, 0), Pt(10, 0), Pt(10, 10), Pt(0, 10)>>

BaseShapes ==
    {Rect(w, h) : w \in Sizes, h \in Sizes}
        \cup {Tri(s) : s \in Sizes}
        \cup {LShape(s) : s \in Sizes}
        \cup {Seg(s) : s \in Sizes}
        \cup {Square}

\* the same closed boundary started at vertex k + 1
Rotate(pts, k) == [i \in 1..Len(pts) |-> pts[((i + k - 1) % Len(pts)) + 1]]

\* vertex j repeated: a zero-length edge after vertex j
DupAt(pts, j) ==
    [i \in 1..(Len(pts) + 1) |-> IF i <= j THEN pts[i] ELSE pts[i - 1]]

Rotations == UNION {{Rotate(s, k) : k \in 0..(Len(s) - 1)} : s \in BaseShapes}

\* vertex lists with no area: empty, one vertex, one point repeated
Degenerate == {<<>>, <<Pt(1, 2)>>, <<Pt(1, 2), Pt(1, 2)>>,
               <<Pt(1, 2), Pt(1, 2), Pt(1, 2)>>}

Polygons ==
    Rotations
        \cup UNION {{DupAt(s, j) : j \in 1..Len(s)} : s \in Rotations}
        \cup Degenerate

\* progress values in [0, 1)
ProgressSet == UNION {{Num(k, d) : k \in 0..(d - 1)} : d \in 1..MaxDen}

\* progress values shifted by whole cycles
ShiftedSet == {Add(p, Whole(k)) : p \in ProgressSet, k \in 1..MaxShift}

(***************************************************************************)
(* VideoScanEffect (line-band scan): the pattern.                          *)
(***************************************************************************)
animationDuration == 30000
linesPerBand == 7
lineHeight == 2

\* the size the page lays the video element out at
offsetSize == <<3, 2 * linesPerBand * lineHeight>>

\* updateCanvasSize(): the intrinsic size when both are known, else the
\* layout size
updateCanvasSize(video) ==
    IF video[1] # 0 /\ video[2] # 0 THEN video ELSE offsetSize

\* getRevealPattern(progress).scrollPixels on a canvas of height h
getRevealPattern(p, h) ==
    LET cycleProgress == Rem(p, One)
        scrollProgress ==
            IF Lt(cycleProgress, Num(1, 2))
            THEN Div(cycleProgress, Num(1, 2))
            ELSE Div(Sub(cycleProgress, Num(1, 2)), Num(1, 2))
    IN  Mul(scrollProgress, Whole(h))

isLineVisible(lineY, scrollPixels, h) ==
    LET adjustedY == Rem(Add(Whole(lineY), scrollPixels), Whole(h))
        bandSize == linesPerBand * 2
        positionInBand ==
            Rem(Floor(Div(adjustedY, Whole(lineHeight))), Whole(bandSize))
    IN  Lt(positionInBand, Whole(linesPerBand))

\* the y of the lines drawReveal steps through: 0, lineHeight, ... < height
LineStarts(h) == {y \in 0..(h - 1) : y % lineHeight = 0}

\* drawReveal(progress): the lines masked black after the video is drawn
drawRevealBlack(scroll, h) ==
    {y \in LineStarts(h) : ~isLineVisible(y, scroll, h)}

\* one clock step in ms
ScanStepMs == Div(Whole(animationDuration), Whole(ScanStepsPerCycle))

\* animate(), lines 123-125: the progress of a frame at clock step t
ScanProgress(t, start) ==
    LET elapsed == Mul(Whole(t - start), ScanStepMs)
    IN  Div(Rem(elapsed, Whole(animationDuration)), Whole(animationDuration))

\* the body of animate() while isAnimating, with the video's intrinsic size
\* video: start is the start time in force (now when it was null), queue
\* and next the callbacks after the call
animateBody(video, start, queue, next) ==
    LET size == IF video[1] # 0 /\ canvas[1] # video[1]
                THEN updateCanvasSize(video) ELSE canvas
        scroll == getRevealPattern(ScanProgress(scanNow, start), size[2])
    IN  /\ animationStartTime' = start
        /\ canvas' = size
        /\ pattern' = scroll
        /\ blackLines' = drawRevealBlack(scroll, size[2])
        /\ videoDrawn' = (readyState' >= 2)
        /\ frameQueue' = queue
        /\ frameNext' = next

\* new VideoScanEffect(video, canvas): the fields, the canvas size and the
\* first animate() call
ScanConstructed ==
    /\ videoSize = <<0, 0>>
    /\ readyState = 0
    /\ canvas = updateCanvasSize(<<0, 0>>)
    /\ isAnimating = TRUE
    /\ animationStartTime = 0
    /\ scanNow = 0
    /\ frameQueue = 0
    /\ frameNext = 1
    /\ pattern = Zero
    /\ blackLines = drawRevealBlack(Zero, offsetSize[2])
    /\ videoDrawn = FALSE

\* boundaryAnimation as the object literal defines it
BoundaryFields ==
    /\ initAwaiting = 0
    /\ svgPoints = <<>>
    /\ isRunning = FALSE
    /\ startTime = NaN
    /\ animationFrameId = 0
    /\ pendingFrames = {}
    /\ now = Zero
    /\ tracePoint = <<>>
    /\ traceLine = <<>>
    /\ traceGradient = <<>>
    /\ lastError = "none"
    /\ stopCalled = FALSE

(***************************************************************************)
(* SpecTrace: the two tracers applied to a vertex list and a progress.     *)
(***************************************************************************)
\* new LandingAnimation()
LandingFields ==
    /\ vertices = <<>>
    /\ distances = <<>>
    /\ totalDistance = Zero
    /\ boundaryPoint = <<>>

\* no frame computed yet
CurveFields ==
    /\ curveStart = Zero
    /\ curveNow = Zero
    /\ curveFrames = 0
    /\ matrixProgress = Zero
    /\ density = Zero
    /\ waveProgress = Zero
    /\ waveCenter = Zero
    /\ boundaryProgress = Zero
    /\ landingProgress = Zero

\* no page laid out, no zone, nothing tested
ZoneFields ==
    /\ polygonBounds = [isNull |-> TRUE, points |-> <<>>]
    /\ bubbleZones = <<>>
    /\ layout = <<>>
    /\ bubbles = <<>>
    /\ polling = FALSE
    /\ probeIndex = 0
    /\ testPoint = [x |-> Zero, y |-> Zero]
    /\ inPolygon = FALSE
    /\ inBubble = FALSE

\* no effect of part_001 on the page
LinesFields ==
    /\ strategy = "none"
    /\ marks = {}
    /\ sides = <<>>

\* no matrix dissolve on the page
MatrixFields ==
    /\ columns = <<>>
    /\ lastElapsed = Zero
    /\ lastProgress = Zero
    /\ lastOp = "none"

EffectFields == CurveFields /\ ZoneFields /\ LinesFields /\ MatrixFields

\* the same vertex list is handed to boundaryAnimation and, through the
\* points of the polygon element, to LandingAnimation.parsePolygonVertices
TraceInit ==
    /\ polygonPoints \in Polygons
    /\ vertices = polygonPoints
    /\ distances = parsePolygonVertices(vertices)
    /\ totalDistance = (IF Len(vertices) = 0 THEN Zero
                        ELSE distances[Len(distances)])
    /\ boundaryPoint = <<>>
    /\ progress \in ProgressSet \cup ShiftedSet
    /\ point = undefined
    /\ tracePc = "ready"
    /\ svgInDocument = TRUE
    /\ BoundaryFields
    /\ ScanConstructed
    /\ EffectFields

\* a call with a progress in [0, 1), as animate makes it
CallInRange ==
    /\ tracePc = "ready"
    /\ progress \in ProgressSet
    /\ point' = getPointOnPath(polygonPoints, progress)
    /\ tracePc' = "returned"
    /\ UNCHANGED <<polygonPoints, progress, landingVars, boundaryVars, scanVars,
                   effectVars>>

\* a call with a progress that is one or more whole cycles larger
CallShifted ==
    /\ tracePc = "ready"
    /\ progress \in ShiftedSet
    /\ point' = getPointOnPath(polygonPoints, progress)
    /\ tracePc' = "returned"
    /\ UNCHANGED <<polygonPoints, progress, landingVars, boundaryVars, scanVars,
                   effectVars>>

\* LandingAnimation's frame: updatePointPosition() at a video progress in
\* [0, 1); it returns at once when there are no vertices
landingFrame ==
    /\ tracePc = "ready"
    /\ progress \in ProgressSet
    /\ tracePc' = "updated"
    /\ boundaryPoint' =
           IF Len(vertices) = 0 THEN boundaryPoint
           ELSE updatePointPosition(vertices, distances, totalDistance, progress)
    /\ UNCHANGED <<polygonPoints, progress, point, vertices, distances,
                   totalDistance, boundaryVars, scanVars, effectVars>>

TraceNext == CallInRange \/ CallShifted \/ landingFrame

SpecTrace == TraceInit /\ [][TraceNext]_vars

(***************************************************************************)
(* boundaryAnimation: loading the polygon.                                 *)
(***************************************************************************)
padding == 50
viewBoxSize == 1000
scaledSize == viewBoxSize - 2 * padding

MinOf(a, b) == IF Leq(a, b) THEN a ELSE b
MaxOf(a, b) == IF Geq(a, b) THEN a ELSE b

\* the bounds loop of loadPolygonFromGeoJSON: the least and the greatest of
\* coordinate c (1 = lng, 2 = lat) over the ring
RECURSIVE MinCoord(_, _, _)
MinCoord(ring, c, i) ==
    IF i > Len(ring) THEN [n |-> 1, d |-> 0]
    ELSE MinOf(Whole(ring[i][c]), MinCoord(ring, c, i + 1))
RECURSIVE MaxCoord(_, _, _)
MaxCoord(ring, c, i) ==
    IF i > Len(ring) THEN [n |-> -1, d |-> 0]
    ELSE MaxOf(Whole(ring[i][c]), MaxCoord(ring, c, i + 1))

\* [lng, lat] pairs normalised into the viewBox, north up
loadPolygonFromGeoJSON(ring) ==
    LET minLng == MinCoord(ring, 1, 1)
        maxLng == MaxCoord(ring, 1, 1)
        minLat == MinCoord(ring, 2, 1)
        maxLat == MaxCoord(ring, 2, 1)
        maxRange == MaxOf(Sub(maxLng, minLng), Sub(maxLat, minLat))
    IN  [i \in 1..Len(ring) |->
            [x |-> Add(Mul(Div(Sub(Whole(ring[i][1]), minLng), maxRange),
                           Whole(scaledSize)), Whole(padding)),
             y |-> Add(Mul(Div(Sub(maxLat, Whole(ring[i][2])), maxRange),
                           Whole(scaledSize)), Whole(padding))]]

\* coordinates[0] of the first feature, as the file may hold it
RawRings ==
    {<<>>,
     <<<<7, 3>>>>,
     <<<<7, 3>>, <<7, 3>>, <<7, 3>>>>,
     <<<<0, 0>>, <<3, 0>>, <<3, 4>>, <<0, 0>>>>}

(***************************************************************************)
(* boundaryAnimation: one animate() call.                                  *)
(***************************************************************************)
mockDuration == 600
trailLength == Num(8, 100)
segments == 30

\* lines 159-164: the progress of the frame drawn at time t
FrameProgress(t, start) ==
    LET elapsed == Div(Sub(t, start), Whole(1000))
        currentTime == Rem(elapsed, Whole(mockDuration))
    IN  Div(currentTime, Whole(mockDuration))

\* the progress of trail sample i taken behind p without the added turn
trailProgressBehind(p, i) ==
    LET t == Div(Whole(i), Whole(segments))
    IN  Rem(Sub(p, Mul(trailLength, Sub(One, t))), One)

\* line 175: the progress of trail sample i
trailProgress(p, i) ==
    LET t == Div(Whole(i), Whole(segments))
    IN  Rem(Add(Sub(p, Mul(trailLength, Sub(One, t))), One), One)

\* line 168 destructures the returned point: a TypeError on undefined
AnimateThrows(pts) == Len(pts) = 0

pathData(pts, p) ==
    [k \in 1..(segments + 1) |-> getPointOnPath(pts, trailProgress(p, k - 1))]

\* animate() at time t over the vertex list pts, with the frame callbacks
\* pend still waiting: the marker, the trail and the gradient are set and
\* the next frame is requested; nothing is set when line 168 throws
animate(pts, t, start, pend) ==
    IF AnimateThrows(pts)
    THEN /\ lastError' = "TypeError"
         /\ pendingFrames' = pend
         /\ UNCHANGED <<tracePoint, traceLine, traceGradient, animationFrameId>>
    ELSE LET p == FrameProgress(t, start)
             front == getPointOnPath(pts, p)
             back == getPointOnPath(pts, Rem(Add(Sub(p, trailLength), One), One))
             id == CHOOSE f \in 1..(Cardinality(pend) + 2) :
                       f \notin pend /\ f # animationFrameId
         IN  /\ UNCHANGED lastError
             /\ tracePoint' = <<front.x, front.y>>
             /\ traceLine' = pathData(pts, p)
             /\ traceGradient' = <<back, front>>
             /\ animationFrameId' = id
             /\ pendingFrames' = pend \cup {id}

\* startAnimation(): nothing when already running, else the clock is set
\* and the first animate() runs at once
startAnimation(pts) ==
    IF isRunning
    THEN UNCHANGED <<isRunning, startTime, lastError, pendingFrames, tracePoint,
                     traceLine, traceGradient, animationFrameId>>
    ELSE /\ isRunning' = TRUE
         /\ startTime' = now
         /\ animate(pts, now, now, pendingFrames)

(***************************************************************************)
(* SpecBoundary: the life cycle of boundaryAnimation.                      *)
(***************************************************************************)
BoundaryInit ==
    /\ polygonPoints = <<>>
    /\ progress = Zero
    /\ point = undefined
    /\ tracePc = "ready"
    /\ LandingFields
    /\ svgInDocument \in BOOLEAN
    /\ BoundaryFields
    /\ ScanConstructed
    /\ EffectFields

\* init() up to its await; it returns at once when the svg element is missing
initCall ==
    /\ stopCalled' = FALSE
    /\ initAwaiting < MaxInits
    /\ initAwaiting' = IF svgInDocument THEN initAwaiting + 1 ELSE initAwaiting
    /\ UNCHANGED <<polygonPoints, traceVars, effectVars, scanVars, svgInDocument, svgPoints,
                   isRunning, startTime, animationFrameId, pendingFrames, now,
                   tracePoint, traceLine, traceGradient, lastError>>

\* the load completes: the rest of init() runs (generateSVGPolygon,
\* setupVideoSync, startAnimation); its catch swallows what animate() throws
initLoadResolved ==
    \E ring \in RawRings :
        /\ UNCHANGED stopCalled
        /\ initAwaiting > 0
        /\ initAwaiting' = initAwaiting - 1
        /\ polygonPoints' = loadPolygonFromGeoJSON(ring)
        /\ svgPoints' = <<polygonPoints'>>
        /\ startAnimation(polygonPoints')
        /\ UNCHANGED <<traceVars, effectVars, scanVars, svgInDocument, now>>

\* the fetch or the parse fails: loadPolygonFromGeoJSON rethrows, init() logs
initLoadRejected ==
    /\ UNCHANGED stopCalled
    /\ initAwaiting > 0
    /\ initAwaiting' = initAwaiting - 1
    /\ lastError' = "load"
    /\ UNCHANGED <<polygonPoints, traceVars, effectVars, scanVars, svgInDocument, svgPoints, isRunning,
                   startTime, animationFrameId, pendingFrames, now, tracePoint,
                   traceLine, traceGradient>>

\* a requested frame callback runs animate()
animateFrame ==
    \E id \in pendingFrames :
        /\ UNCHANGED stopCalled
        /\ animate(polygonPoints, now, startTime, pendingFrames \ {id})
        /\ UNCHANGED <<polygonPoints, traceVars, effectVars, scanVars, svgInDocument, initAwaiting,
                       svgPoints, isRunning, startTime, now>>

\* startAnimation() called from outside init()
startAnimationCall ==
    /\ stopCalled' = FALSE
    /\ startAnimation(polygonPoints)
    /\ UNCHANGED <<polygonPoints, traceVars, effectVars, scanVars, svgInDocument, initAwaiting,
                   svgPoints, now>>

stop ==
    /\ stopCalled' = TRUE
    /\ isRunning' = FALSE
    /\ pendingFrames' = IF animationFrameId # 0
                        THEN pendingFrames \ {animationFrameId}
                        ELSE pendingFrames
    /\ UNCHANGED <<polygonPoints, traceVars, effectVars, scanVars, svgInDocument, initAwaiting,
                   svgPoints, startTime, animationFrameId, now,
                   tracePoint, traceLine, traceGradient, lastError>>

\* the clock advances by one step
TickMs == Div(Whole(mockDuration * 1000), Whole(TicksPerCycle))
tick ==
    /\ UNCHANGED stopCalled
    /\ Lt(now, Mul(Whole(MaxTicks), TickMs))
    /\ now' = Add(now, TickMs)
    /\ UNCHANGED <<polygonPoints, traceVars, effectVars, scanVars, svgInDocument, initAwaiting,
                   svgPoints, isRunning, startTime, animationFrameId,
                   pendingFrames, tracePoint, traceLine, traceGradient, lastError>>

BoundaryNext ==
    \/ initCall
    \/ initLoadResolved
    \/ initLoadRejected
    \/ animateFrame
    \/ startAnimationCall
    \/ stop
    \/ tick

SpecBoundary == BoundaryInit /\ [][BoundaryNext]_vars

(***************************************************************************)
(* SpecTrail: boundaryAnimation drawing its trail on a clock that advances *)
(* by a twenty-fifth of the cycle, so that frames fall at the progress     *)
(* 0, 0.04, 0.08, ...                                                      *)
(***************************************************************************)
TrailTickMs == Whole(24000)

trailTick ==
    /\ UNCHANGED stopCalled
    /\ Lt(now, Mul(Whole(MaxTrailTicks), TrailTickMs))
    /\ now' = Add(now, TrailTickMs)
    /\ UNCHANGED <<polygonPoints, traceVars, effectVars, scanVars, svgInDocument, initAwaiting,
                   svgPoints, isRunning, startTime, animationFrameId,
                   pendingFrames, tracePoint, traceLine, traceGradient, lastError>>

TrailNext ==
    \/ initCall
    \/ initLoadResolved
    \/ animateFrame
    \/ trailTick

SpecTrail == BoundaryInit /\ [][TrailNext]_vars

(***************************************************************************)
(* SpecScan: one VideoScanEffect (line-band scan) and its video.           *)
(* The callbacks of one displayed frame run back to back; events (the      *)
(* video's, stop(), start()) are handled between frames.                   *)
(***************************************************************************)
VideoSizes == {<<w, h>> : w \in {4},
                          h \in (2 * linesPerBand * lineHeight)..MaxHeight}

ScanInit ==
    /\ polygonPoints = <<>>
    /\ progress = Zero
    /\ point = undefined
    /\ tracePc = "ready"
    /\ LandingFields
    /\ svgInDocument = TRUE
    /\ BoundaryFields
    /\ ScanConstructed
    /\ EffectFields

\* the browser starts a frame: the clock has advanced and the callbacks
\* requested so far are due
scanRepaint ==
    /\ frameQueue = 0
    /\ frameNext > 0
    /\ scanNow < MaxScanSteps
    /\ scanNow' = scanNow + 1
    /\ frameQueue' = frameNext
    /\ frameNext' = 0
    /\ UNCHANGED <<polygonPoints, traceVars, effectVars, boundaryVars, videoSize, readyState,
                   canvas, isAnimating, animationStartTime, pattern,
                   blackLines, videoDrawn>>

\* a due callback runs animate(): it only reschedules itself while stopped
scanAnimate ==
    /\ frameQueue > 0
    /\ UNCHANGED <<polygonPoints, traceVars, effectVars, boundaryVars, videoSize, readyState,
                   isAnimating, scanNow>>
    /\ IF ~isAnimating
       THEN /\ frameQueue' = frameQueue - 1
            /\ frameNext' = frameNext + 1
            /\ UNCHANGED <<animationStartTime, canvas, pattern, blackLines,
                           videoDrawn>>
       ELSE animateBody(videoSize,
                        IF animationStartTime = -1 THEN scanNow
                        ELSE animationStartTime,
                        frameQueue - 1, frameNext + 1)

scanStop ==
    /\ frameQueue = 0
    /\ isAnimating' = FALSE
    /\ UNCHANGED <<polygonPoints, traceVars, effectVars, boundaryVars, videoSize, readyState,
                   canvas, animationStartTime, scanNow, frameQueue, frameNext,
                   pattern, blackLines, videoDrawn>>

\* start(): the clock is reset and animate() is called at once
start(video) ==
    /\ isAnimating' = TRUE
    /\ animateBody(video, scanNow, frameQueue, frameNext + 1)

scanStart ==
    /\ frameQueue = 0
    /\ frameNext < MaxCallbacks
    /\ UNCHANGED <<polygonPoints, traceVars, effectVars, boundaryVars, videoSize, readyState,
                   scanNow>>
    /\ start(videoSize)

\* the video's metadata arrives: the intrinsic size is known and the
\* 'loadedmetadata' listener calls start()
scanLoadedMetadata ==
    \E size \in VideoSizes :
        /\ frameQueue = 0
        /\ frameNext < MaxCallbacks
        /\ readyState = 0
        /\ readyState' = 1
        /\ videoSize' = size
        /\ UNCHANGED <<polygonPoints, traceVars, effectVars, boundaryVars, scanNow>>
        /\ start(size)

\* the current frame of the video becomes decodable
scanCanPlay ==
    /\ frameQueue = 0
    /\ readyState = 1
    /\ readyState' = 4
    /\ UNCHANGED <<polygonPoints, traceVars, effectVars, boundaryVars, videoSize, canvas,
                   isAnimating, animationStartTime, scanNow, frameQueue,
                   frameNext, pattern, blackLines, videoDrawn>>

ScanNext ==
    \/ scanRepaint
    \/ scanAnimate
    \/ scanStop
    \/ scanStart
    \/ scanLoadedMetadata
    \/ scanCanPlay

SpecScan == ScanInit /\ [][ScanNext]_vars

(***************************************************************************)
(* The per-frame progress of every animation and the two curves of the     *)
(* matrix dissolve and the serpentine wave.                                *)
(***************************************************************************)
\* this.animationDuration of the matrix dissolve
matrixDuration == 60000

\* animate(): elapsed = now - animationStartTime
Elapsed(t, t0) == Sub(t, t0)

\* a progress that is not reduced to the cycle
CycleProgressUnwrapped(elapsed, duration) == Div(elapsed, Whole(duration))

\* a density whose falling half starts from the rising half's first value
getPixelDensityJump(p) ==
    IF Lt(p, Num(1, 2))
    THEN Add(Num(2, 10), Mul(Mul(p, Whole(2)), Num(8, 10)))
    ELSE Sub(One, Mul(Mul(p, Whole(2)), Num(8, 10)))

\* a wave centre that sweeps the same way in both halves (a sawtooth)
getSerpentinePositionSaw(p) ==
    IF Lt(p, Num(1, 2))
    THEN Sub(One, Mul(p, Whole(2)))
    ELSE Sub(One, Mul(Sub(p, Num(1, 2)), Whole(2)))

\* animate(): progress = (elapsed % animationDuration) / animationDuration
CycleProgress(elapsed, duration) ==
    Div(Rem(elapsed, Whole(duration)), Whole(duration))

getPixelDensity(p) ==
    IF Lt(p, Num(1, 2))
    THEN Add(Num(2, 10), Mul(Mul(p, Whole(2)), Num(8, 10)))
    ELSE Sub(One, Mul(Mul(Sub(p, Num(1, 2)), Whole(2)), Num(8, 10)))

getSerpentinePosition(p) ==
    IF Lt(p, Num(1, 2))
    THEN Sub(One, Mul(p, Whole(2)))
    ELSE Mul(Sub(p, Num(1, 2)), Whole(2))

\* a || b on numbers: b when a is 0 or NaN
OrElse(a, b) == IF IsNaN(a) \/ a = Zero THEN b ELSE a

\* LandingAnimation.updatePointPosition, lines 118-120, from the video's
\* duration and currentTime (seconds)
LandingProgress(videoDuration, videoCurrentTime) ==
    LET duration == OrElse(videoDuration, Whole(20))
        currentTime == OrElse(videoCurrentTime, Zero)
    IN  Div(Rem(currentTime, duration), duration)

\* the time between two frames (ms): any positive interval
TickIntervals == {1, 7500, 29999, 600000}

\* performance.now() when the clock baseline is taken
ClockStarts == {0, 1234}

\* the durations a video element reports (seconds): NaN before the
\* metadata, Infinity for a stream, else its length
VideoDurations == {NaN, [n |-> 1, d |-> 0], Whole(7), Num(41, 2)}

\* the playback positions of a video of duration d
VideoTimes(d) ==
    {t \in {Zero, Num(7, 2), Whole(7), Whole(19), Num(41, 2), Whole(300)} :
        IF IsNaN(d) THEN t = Zero ELSE Leq(t, d)}

(***************************************************************************)
(* SpecCurve: frames at arbitrary positive intervals of a monotonic clock. *)
(***************************************************************************)
CurveInit ==
    /\ polygonPoints = <<>>
    /\ progress = Zero
    /\ point = undefined
    /\ tracePc = "ready"
    /\ LandingFields
    /\ svgInDocument = TRUE
    /\ BoundaryFields
    /\ ScanConstructed
    /\ ZoneFields
    /\ LinesFields
    /\ MatrixFields
    /\ curveStart \in {Whole(t) : t \in ClockStarts}
    /\ curveNow = curveStart
    /\ curveFrames = 0
    /\ matrixProgress = Zero
    /\ density = Zero
    /\ waveProgress = Zero
    /\ waveCenter = Zero
    /\ boundaryProgress = Zero
    /\ landingProgress = Zero

\* the progress lines of one frame of each animation at time t
FrameValues(t, videoDuration, videoCurrentTime) ==
    /\ matrixProgress' = CycleProgress(Elapsed(t, curveStart), matrixDuration)
    /\ density' = getPixelDensity(matrixProgress')
    /\ waveProgress' = CycleProgress(Elapsed(t, curveStart), animationDuration)
    /\ waveCenter' = getSerpentinePosition(waveProgress')
    /\ boundaryProgress' = FrameProgress(t, curveStart)
    /\ landingProgress' = LandingProgress(videoDuration, videoCurrentTime)

\* the first frame: the baseline was taken in the same call, elapsed is 0
curveFirstFrame ==
    /\ curveFrames = 0
    /\ curveFrames' = 1
    /\ \E d \in VideoDurations : \E ct \in VideoTimes(d) :
           FrameValues(curveNow, d, ct)
    /\ UNCHANGED <<polygonPoints, traceVars, boundaryVars, scanVars, zoneVars, linesVars, matrixVars,
                   curveStart, curveNow>>

\* a later frame, some positive time after the one before
curveFrame ==
    /\ curveFrames > 0
    /\ curveFrames < MaxCurveFrames
    /\ curveFrames' = curveFrames + 1
    /\ \E dt \in TickIntervals :
           /\ curveNow' = Add(curveNow, Whole(dt))
           /\ \E d \in VideoDurations : \E ct \in VideoTimes(d) :
                  FrameValues(curveNow', d, ct)
    /\ UNCHANGED <<polygonPoints, traceVars, boundaryVars, scanVars, zoneVars, linesVars, matrixVars,
                   curveStart>>

CurveNext == curveFirstFrame \/ curveFrame

SpecCurve == CurveInit /\ [][CurveNext]_vars

(***************************************************************************)
(* The exclusion zones of the matrix dissolve: the lot polygon in canvas   *)
(* coordinates and the ellipses around the navigation bubbles.             *)
(***************************************************************************)
\* this.polygonBounds = null
NullBounds == [isNull |-> TRUE, points |-> <<>>]

\* the svg and canvas rectangles of a page: svg is the bounding rectangle of
\* #lot-boundary-svg relative to the canvas (absent when the element is
\* missing), scale is canvas.width / canvasRect.width and the same for height
Layout(present, left, top, width, height, scaleCanvasX, scaleCanvasY) ==
    [svg |-> present,
     left |-> Whole(left), top |-> Whole(top),
     width |-> Whole(width), height |-> Whole(height),
     scaleCanvasX |-> Whole(scaleCanvasX), scaleCanvasY |-> Whole(scaleCanvasY)]

Layouts ==
    {Layout(TRUE, 0, 0, 1000, 1000, 1, 1),
     Layout(TRUE, -1, 1, 2000, 1000, 1, 1),
     Layout(TRUE, 0, 0, 1000, 1000, 2, 1),
     Layout(TRUE, 0, 0, 0, 0, 1, 1),
     Layout(TRUE, 0, 0, 1000, 1000, 0, 0),
     Layout(FALSE, 0, 0, 0, 0, 1, 1)}

\* window.boundaryAnimation.polygonPoints as the zone's source
ZonePolygons ==
    {<<>>,
     Rect(2, 2),
     <<Pt(0, 0), Pt(0, 2), Pt(2, 2), Pt(2, 0)>>,
     <<Pt(0, 0), Pt(3, 0), Pt(0, 3)>>,
     <<Pt(3, 0), Pt(0, 3), Pt(0, 0)>>,
     <<Pt(2, 0), Pt(4, 2), Pt(2, 4), Pt(0, 2)>>,
     <<Pt(0, 0), Pt(1, 0), Pt(2, 0), Pt(2, 2), Pt(0, 2)>>,
     LShape(2),
     Seg(1),
     <<Pt(1, 2), Pt(1, 2), Pt(1, 2)>>}

\* the bounding rectangles of the .nav-bubble elements, relative to the canvas
Bubble(left, top, width, height) ==
    [left |-> Whole(left), top |-> Whole(top),
     width |-> Whole(width), height |-> Whole(height)]

BubbleLists ==
    {<<>>,
     <<Bubble(-13, -15, 10, 10)>>,
     <<Bubble(12, -10, 2, 0), Bubble(-13, -15, 10, 10)>>}

\* the points tested: half-integer coordinates from -1 to MaxGrid / 2,
\* visited column by column as drawMatrixEffect visits the blocks
GridSide == MaxGrid + 3
GridPoints == GridSide * GridSide
GridPoint(k) == [x |-> Num((k \div GridSide) - 2, 2),
                 y |-> Num((k % GridSide) - 2, 2)]

\* lines 297-331 of part_002
calculatePolygonScreenBounds(pts, lay) ==
    IF ~lay.svg THEN NullBounds
    ELSE LET scaleX == Div(lay.width, Whole(viewBoxSize))
             scaleY == Div(lay.height, Whole(viewBoxSize))
         IN  [isNull |-> FALSE,
              points |->
                  [i \in 1..Len(pts) |->
                      [x |-> Mul(Add(lay.left, Mul(pts[i].x, scaleX)),
                                 lay.scaleCanvasX),
                       y |-> Mul(Add(lay.top, Mul(pts[i].y, scaleY)),
                                 lay.scaleCanvasY)]]]

\* lines 253-286 of part_002
initBubbleExclusion(bubbleRects, lay) ==
    [b \in 1..Len(bubbleRects) |->
        LET x == Mul(bubbleRects[b].left, lay.scaleCanvasX)
            y == Mul(bubbleRects[b].top, lay.scaleCanvasY)
            width == Mul(bubbleRects[b].width, lay.scaleCanvasX)
            height == Mul(bubbleRects[b].height, lay.scaleCanvasY)
            pad == Mul(Whole(10), MinOf(lay.scaleCanvasX, lay.scaleCanvasY))
        IN  [x |-> Sub(x, pad),
             y |-> Sub(y, pad),
             width |-> Add(width, Mul(pad, Whole(2))),
             height |-> Add(height, Mul(pad, Whole(2))),
             centerX |-> Add(x, Div(width, Whole(2))),
             centerY |-> Add(y, Div(height, Whole(2))),
             radiusX |-> Div(Add(width, Mul(pad, Whole(2))), Whole(2)),
             radiusY |-> Div(Add(height, Mul(pad, Whole(2))), Whole(2))]]

\* the strict ellipse test: points of the outline are outside
isPointInBubbleStrict(zones, pt) ==
    \E z \in 1..Len(zones) :
        LET dx == Div(Sub(pt.x, zones[z].centerX), zones[z].radiusX)
            dy == Div(Sub(pt.y, zones[z].centerY), zones[z].radiusY)
        IN  Lt(Add(Mul(dx, dx), Mul(dy, dy)), One)

\* lines 288-295 of part_002
isPointInBubble(zones, pt) ==
    \E z \in 1..Len(zones) :
        LET dx == Div(Sub(pt.x, zones[z].centerX), zones[z].radiusX)
            dy == Div(Sub(pt.y, zones[z].centerY), zones[z].radiusY)
        IN  Leq(Add(Mul(dx, dx), Mul(dy, dy)), One)

\* the loop of isPointInPolygon from index i on, j the index before i
RECURSIVE RayFrom(_, _, _, _, _)
RayFrom(points, i, j, pt, inside) ==
    IF i > Len(points) THEN inside
    ELSE LET xi == points[i].x
             yi == points[i].y
             xj == points[j].x
             yj == points[j].y
             intersect ==
                 /\ Gt(yi, pt.y) # Gt(yj, pt.y)
                 /\ Lt(pt.x, Add(Div(Mul(Sub(xj, xi), Sub(pt.y, yi)),
                                     Sub(yj, yi)), xi))
         IN  RayFrom(points, i + 1, i, pt,
                     IF intersect THEN ~inside ELSE inside)

\* the ray cast over the open vertex list: the closing edge is left out
isPointInPolygonOpen(bounds, pt) ==
    IF bounds.isNull THEN FALSE
    ELSE RayFrom(bounds.points, 2, 1, pt, FALSE)

\* lines 333-350 of part_002, lines 81-98 of video-scan-effect.js
isPointInPolygon(bounds, pt) ==
    IF bounds.isNull THEN FALSE
    ELSE RayFrom(bounds.points, 1, Len(bounds.points), pt, FALSE)

(***************************************************************************)
(* SpecZone: the zones of one page layout and the containment tests of     *)
(* drawMatrixEffect on points of the surface.                              *)
(***************************************************************************)
ZoneInit ==
    /\ polygonPoints \in ZonePolygons
    /\ progress = Zero
    /\ point = undefined
    /\ tracePc = "ready"
    /\ LandingFields
    /\ svgInDocument = TRUE
    /\ BoundaryFields
    /\ ScanConstructed
    /\ CurveFields
    /\ LinesFields
    /\ MatrixFields
    /\ layout \in Layouts
    /\ bubbles \in BubbleLists
    /\ polygonBounds = NullBounds
    /\ bubbleZones = initBubbleExclusion(bubbles, layout)
    /\ polling = TRUE
    /\ probeIndex = 0
    /\ testPoint = [x |-> Zero, y |-> Zero]
    /\ inPolygon = FALSE
    /\ inBubble = FALSE

\* initPolygonExclusion's checkBoundary: sets the zone once the boundary
\* animation has points, else polls again 100 ms later
checkBoundary ==
    /\ polling
    /\ IF Len(polygonPoints) > 0
       THEN /\ polygonBounds' = calculatePolygonScreenBounds(polygonPoints, layout)
            /\ polling' = FALSE
       ELSE UNCHANGED <<polygonBounds, polling>>
    /\ UNCHANGED <<polygonPoints, traceVars, boundaryVars, scanVars, curveVars, linesVars, matrixVars,
                   bubbleZones, layout, bubbles, probeIndex, testPoint,
                   inPolygon, inBubble>>

\* the two tests of drawMatrixEffect on one point of the surface
zoneProbe ==
    /\ probeIndex < GridPoints
    /\ probeIndex' = probeIndex + 1
    /\ testPoint' = GridPoint(probeIndex)
    /\ inPolygon' = isPointInPolygon(polygonBounds, testPoint')
    /\ inBubble' = isPointInBubble(bubbleZones, testPoint')
    /\ UNCHANGED <<polygonPoints, traceVars, boundaryVars, scanVars, curveVars, linesVars, matrixVars,
                   polygonBounds, bubbleZones, layout, bubbles, polling>>

ZoneNext == checkBoundary \/ zoneProbe

SpecZone == ZoneInit /\ [][ZoneNext]_vars

(***************************************************************************)
(* The moving-lines and the serpentine effects of part_001: what a frame   *)
(* leaves on the surface over its black fill.                              *)
(***************************************************************************)
numLines == 7
numBands == 7

\* getLinePositions, lines 36-98: the normalised y of every line drawn and
\* the half of the surface that shows the video
getLinePositions(p) ==
    LET cycleProgress == Rem(p, One)
    IN  IF Lt(cycleProgress, Num(10, 100))
        THEN LET appearProgress == Div(cycleProgress, Num(10, 100))
                 numVisibleLines ==
                     Floor(Mul(appearProgress, Whole(numLines + 1))).n
                 shown == IF numVisibleLines < numLines THEN numVisibleLines
                          ELSE numLines
             IN  [positions |-> [i \in 1..shown |-> One],
                  showLeft |-> TRUE, showRight |-> FALSE]
        ELSE IF Lt(cycleProgress, Num(50, 100))
        THEN LET moveProgress ==
                     Div(Sub(cycleProgress, Num(10, 100)), Num(40, 100))
             IN  [positions |-> [i \in 1..numLines |-> Sub(One, moveProgress)],
                  showLeft |-> TRUE, showRight |-> FALSE]
        ELSE IF Lt(cycleProgress, Num(90, 100))
        THEN LET moveProgress ==
                     Div(Sub(cycleProgress, Num(50, 100)), Num(40, 100))
             IN  [positions |-> [i \in 1..numLines |-> moveProgress],
                  showLeft |-> FALSE, showRight |-> TRUE]
        ELSE [positions |-> <<>>, showLeft |-> FALSE, showRight |-> FALSE]

\* drawLines, lines 100-150, after its black fill: the video on one half
\* when it is decodable, then the white lines
drawLines(p, size, decodable) ==
    LET lineData == getLinePositions(p)
    IN  IF Len(lineData.positions) = 0 THEN {}
        ELSE (IF decodable
              THEN {[kind |-> "video",
                     top |-> Zero, height |-> Whole(size[2]),
                     half |-> IF lineData.showLeft THEN "left" ELSE "right"]}
              ELSE {})
             \cup {[kind |-> "white",
                    top |-> Sub(Mul(pos, Whole(size[2])),
                                Div(Whole(lineHeight), Whole(2))),
                    height |-> Whole(lineHeight),
                    half |-> "both"] :
                      pos \in {lineData.positions[i] :
                                  i \in 1..Len(lineData.positions)}}

\* drawBands, lines 276-303, after its translucent black fill: the bands
\* cleared to transparent
drawBands(p, size) ==
    LET center == getSerpentinePosition(p)
        bandWidth == Div(Whole(size[2]), Whole(numBands))
    IN  {LET offset == Sub(Div(Whole(i), Whole(numBands - 1)), Num(1, 2))
             bandCenter == Add(center, Mul(offset, Num(2, 10)))
             normalizedCenter == Rem(Add(Rem(bandCenter, One), One), One)
             yPos == Mul(normalizedCenter, Whole(size[2]))
         IN  [kind |-> "clear",
              top |-> Sub(yPos, Mul(bandWidth, Num(1, 2))),
              height |-> Mul(bandWidth, Num(1, 2)),
              half |-> "both"] : i \in 0..(numBands - 1)}

\* the serpentine animate(), lines 324-334: the video frame or a black fill,
\* then the bands
drawSerpentine(p, size, decodable) ==
    (IF decodable
     THEN {[kind |-> "video", top |-> Zero, height |-> Whole(size[2]),
            half |-> "both"]}
     ELSE {})
        \cup drawBands(p, size)

\* the body of animate() of either class while isAnimating
linesBody(video, t0, queue, next) ==
    LET size == IF video[1] # 0 /\ canvas[1] # video[1]
                THEN updateCanvasSize(video) ELSE canvas
        p == ScanProgress(scanNow, t0)
    IN  /\ animationStartTime' = t0
        /\ canvas' = size
        /\ marks' = (IF strategy = "movingLines"
                     THEN drawLines(p, size, readyState' >= 2)
                     ELSE drawSerpentine(p, size, readyState' >= 2))
        /\ videoDrawn' = (\E m \in marks' : m.kind = "video")
        /\ frameQueue' = queue
        /\ frameNext' = next
        /\ UNCHANGED <<strategy, sides, pattern, blackLines>>

(***************************************************************************)
(* SpecLines: one effect of part_001 and its video.                        *)
(***************************************************************************)
\* new VideoScanEffect(video, canvas) of either class: the fields, the
\* canvas size and the first animate() call, at progress 0
LinesInit ==
    /\ polygonPoints = <<>>
    /\ progress = Zero
    /\ point = undefined
    /\ tracePc = "ready"
    /\ LandingFields
    /\ svgInDocument = TRUE
    /\ BoundaryFields
    /\ CurveFields
    /\ ZoneFields
    /\ MatrixFields
    /\ strategy \in {"movingLines", "serpentine"}
    /\ sides = <<>>
    /\ videoSize = <<0, 0>>
    /\ readyState = 0
    /\ canvas = updateCanvasSize(<<0, 0>>)
    /\ isAnimating = TRUE
    /\ animationStartTime = 0
    /\ scanNow = 0
    /\ frameQueue = 0
    /\ frameNext = 1
    /\ pattern = Zero
    /\ blackLines = {}
    /\ videoDrawn = FALSE
    /\ marks = (IF strategy = "movingLines"
                THEN drawLines(Zero, canvas, FALSE)
                ELSE drawSerpentine(Zero, canvas, FALSE))

\* a due callback runs animate(): it only reschedules itself while stopped
linesAnimate ==
    /\ frameQueue > 0
    /\ UNCHANGED <<polygonPoints, traceVars, boundaryVars, curveVars, zoneVars,
                   matrixVars, videoSize, readyState, isAnimating, scanNow>>
    /\ IF ~isAnimating
       THEN /\ frameQueue' = frameQueue - 1
            /\ frameNext' = frameNext + 1
            /\ UNCHANGED <<animationStartTime, canvas, pattern, blackLines,
                           videoDrawn, linesVars>>
       ELSE linesBody(videoSize,
                      IF animationStartTime = -1 THEN scanNow
                      ELSE animationStartTime,
                      frameQueue - 1, frameNext + 1)

\* start(): the clock is reset and animate() is called at once
linesStart ==
    /\ frameQueue = 0
    /\ frameNext < MaxCallbacks
    /\ UNCHANGED <<polygonPoints, traceVars, boundaryVars, curveVars, zoneVars,
                   matrixVars, videoSize, readyState, scanNow>>
    /\ isAnimating' = TRUE
    /\ linesBody(videoSize, scanNow, frameQueue, frameNext + 1)

\* the video's metadata arrives: the intrinsic size is known and the
\* 'loadedmetadata' listener calls start()
linesLoadedMetadata ==
    \E size \in VideoSizes :
        /\ frameQueue = 0
        /\ frameNext < MaxCallbacks
        /\ readyState = 0
        /\ readyState' = 1
        /\ videoSize' = size
        /\ isAnimating' = TRUE
        /\ linesBody(size, scanNow, frameQueue, frameNext + 1)
        /\ UNCHANGED <<polygonPoints, traceVars, boundaryVars, curveVars,
                       zoneVars, matrixVars, scanNow>>

LinesNext ==
    \/ scanRepaint
    \/ linesAnimate
    \/ scanStop
    \/ linesStart
    \/ linesLoadedMetadata
    \/ scanCanPlay

SpecLines == LinesInit /\ [][LinesNext]_vars

(***************************************************************************)
(* The matrix dissolve of video-scan-effect.js: columns of falling blocks. *)
(***************************************************************************)
pixelSize == 8
fallSpeed == Num(3, 10)
columnDelay == 50

Ceil(a) == Neg(Floor(Neg(a)))

\* the time between two displayed frames (ms)
MatrixStepMs == 25

\* the video's intrinsic size once its metadata is known: two columns wide,
\* low enough for a block to reach the bottom within a few frames
MatrixVideoSizes == {<<12, 1>>}

\* the values Math.random() returns at each of its call sites
FirstYDraws == {Zero}                \* line 145, y of a column's first block
FirstSpeedDraws == {Num(1, 2)}          \* line 146, its speed
WrapDraws == {Num(1, 2)}            \* line 157, y of a recycled block
SpawnRolls == {Zero, Num(1, 2)}      \* line 167, compared with spawnChance
SpawnYDraws == {Zero}                \* line 169, y of a spawned block
SpawnSpeedDraws == {Num(1, 2)}       \* line 170, its speed

\* the draws of one updateColumns pass over one column
Draws ==
    [firstY : FirstYDraws, firstSpeed : FirstSpeedDraws, wrap : WrapDraws,
     roll : SpawnRolls, spawnY : SpawnYDraws, spawnSpeed : SpawnSpeedDraws]

\* columns created already active, one block each
initColumnsActive(width) ==
    [i \in 1..((width + pixelSize - 1) \div pixelSize) |->
        [x |-> (i - 1) * pixelSize,
         pixels |-> <<[y |-> Zero, speed |-> fallSpeed]>>,
         active |-> TRUE,
         activationTime |-> (i - 1) * columnDelay]]

\* initColumns(), lines 110-122, on a canvas of the given width
initColumns(width) ==
    [i \in 1..((width + pixelSize - 1) \div pixelSize) |->
        [x |-> (i - 1) * pixelSize,
         pixels |-> <<>>,
         active |-> FALSE,
         activationTime |-> (i - 1) * columnDelay]]

\* lines 153-161: every block falls by its speed; one that passed the
\* bottom goes back above the top
fall(pixels, h, d) ==
    [k \in 1..Len(pixels) |->
        LET y == Add(pixels[k].y, pixels[k].speed)
        IN  [y |-> IF Gt(y, Whole(h))
                   THEN Mul(Whole(-pixelSize),
                            Add(Whole(2), Mul(d.wrap, Whole(3))))
                   ELSE y,
             speed |-> pixels[k].speed]]

\* the update of one column with no limit on the number of its blocks
updateColumnUncapped(col, elapsed, dens, h, d) ==
    LET activate == ~col.active /\ Geq(elapsed, Whole(col.activationTime))
        first == IF activate
                 THEN Append(col.pixels,
                             [y |-> Mul(Mul(Whole(-pixelSize), d.firstY), Whole(5)),
                              speed |-> Mul(fallSpeed,
                                            Add(Num(8, 10),
                                                Mul(d.firstSpeed, Num(4, 10))))])
                 ELSE col.pixels
        active == col.active \/ activate
        fallen == fall(first, h, d)
        spawnChance == Mul(Num(15, 1000), dens)
        spawned == IF Lt(d.roll, spawnChance)
                   THEN Append(fallen,
                               [y |-> Mul(Whole(-pixelSize),
                                          Add(Whole(2), Mul(d.spawnY, Whole(3)))),
                                speed |-> Mul(fallSpeed,
                                              Add(Num(9, 10),
                                                  Mul(d.spawnSpeed, Num(2, 10))))])
                   ELSE fallen
    IN  [x |-> col.x,
         pixels |-> IF active THEN spawned ELSE col.pixels,
         active |-> active,
         activationTime |-> col.activationTime]

\* the update of one column that activates it whatever the elapsed time
updateColumnEager(col, elapsed, dens, h, d) ==
    LET activate == ~col.active
        first == IF activate
                 THEN Append(col.pixels,
                             [y |-> Mul(Mul(Whole(-pixelSize), d.firstY), Whole(5)),
                              speed |-> Mul(fallSpeed,
                                            Add(Num(8, 10),
                                                Mul(d.firstSpeed, Num(4, 10))))])
                 ELSE col.pixels
        active == col.active \/ activate
        fallen == fall(first, h, d)
        spawnChance == Mul(Num(15, 1000), dens)
        maxPixels == Ceil(Mul(Whole(15), dens))
        spawned == IF Lt(d.roll, spawnChance) /\ Lt(Whole(Len(fallen)), maxPixels)
                   THEN Append(fallen,
                               [y |-> Mul(Whole(-pixelSize),
                                          Add(Whole(2), Mul(d.spawnY, Whole(3)))),
                                speed |-> Mul(fallSpeed,
                                              Add(Num(9, 10),
                                                  Mul(d.spawnSpeed, Num(2, 10))))])
                   ELSE fallen
    IN  [x |-> col.x,
         pixels |-> IF active THEN spawned ELSE col.pixels,
         active |-> active,
         activationTime |-> col.activationTime]

\* the body of updateColumns' forEach, lines 140-174, for one column
updateColumn(col, elapsed, dens, h, d) ==
    LET activate == ~col.active /\ Geq(elapsed, Whole(col.activationTime))
        first == IF activate
                 THEN Append(col.pixels,
                             [y |-> Mul(Mul(Whole(-pixelSize), d.firstY), Whole(5)),
                              speed |-> Mul(fallSpeed,
                                            Add(Num(8, 10),
                                                Mul(d.firstSpeed, Num(4, 10))))])
                 ELSE col.pixels
        active == col.active \/ activate
        fallen == fall(first, h, d)
        spawnChance == Mul(Num(15, 1000), dens)
        maxPixels == Ceil(Mul(Whole(15), dens))
        spawned == IF Lt(d.roll, spawnChance) /\ Lt(Whole(Len(fallen)), maxPixels)
                   THEN Append(fallen,
                               [y |-> Mul(Whole(-pixelSize),
                                          Add(Whole(2), Mul(d.spawnY, Whole(3)))),
                                speed |-> Mul(fallSpeed,
                                              Add(Num(9, 10),
                                                  Mul(d.spawnSpeed, Num(2, 10))))])
                   ELSE fallen
    IN  [x |-> col.x,
         pixels |-> IF active THEN spawned ELSE col.pixels,
         active |-> active,
         activationTime |-> col.activationTime]

\* updateColumns(elapsed, density), lines 138-175, with the draws of each
\* column
updateColumns(cols, elapsed, dens, h, draws) ==
    [i \in 1..Len(cols) |-> updateColumn(cols[i], elapsed, dens, h, draws[i])]

\* the drawing with the frame shown through at up to its full opacity
drawMatrixEffectOpaque(cols, dens, size, decodable) ==
    IF ~decodable THEN {}
    ELSE UNION {{[kind |-> "video", layer |-> "cell",
                  left |-> Whole(cols[i].x), top |-> cols[i].pixels[k].y,
                  width |-> Whole(pixelSize), height |-> Whole(pixelSize),
                  alpha |-> One, half |-> "both"] :
                    k \in {j \in 1..Len(cols[i].pixels) :
                        ~isPointInPolygon(polygonBounds,
                            [x |-> Add(Whole(cols[i].x), Num(pixelSize, 2)),
                             y |-> Add(cols[i].pixels[j].y, Num(pixelSize, 2))])}} :
                  i \in {c \in 1..Len(cols) : cols[c].active}}
         \cup (IF Gt(dens, Num(7, 10))
               THEN {[kind |-> "video", layer |-> "frame",
                      left |-> Zero, top |-> Zero,
                      width |-> Whole(size[1]), height |-> Whole(size[2]),
                      alpha |-> Div(Sub(dens, Num(7, 10)), Num(3, 10)),
                      half |-> "both"]}
               ELSE {})

\* drawMatrixEffect, lines 177-218, after its black fill: nothing while the
\* video is not decodable, else the blocks outside the polygon zone (layer
\* "cell") and, at high density, the whole frame at a part of its opacity
\* (layer "frame")
drawMatrixEffect(cols, dens, size, decodable) ==
    IF ~decodable THEN {}
    ELSE UNION {{[kind |-> "video", layer |-> "cell",
                  left |-> Whole(cols[i].x), top |-> cols[i].pixels[k].y,
                  width |-> Whole(pixelSize), height |-> Whole(pixelSize),
                  alpha |-> One, half |-> "both"] :
                    k \in {j \in 1..Len(cols[i].pixels) :
                        ~isPointInPolygon(polygonBounds,
                            [x |-> Add(Whole(cols[i].x), Num(pixelSize, 2)),
                             y |-> Add(cols[i].pixels[j].y, Num(pixelSize, 2))])}} :
                  i \in {c \in 1..Len(cols) : cols[c].active}}
         \cup (IF Gt(dens, Num(7, 10))
               THEN {[kind |-> "video", layer |-> "frame",
                      left |-> Zero, top |-> Zero,
                      width |-> Whole(size[1]), height |-> Whole(size[2]),
                      alpha |-> Mul(Div(Sub(dens, Num(7, 10)), Num(3, 10)),
                                    Num(6, 10)),
                      half |-> "both"]}
               ELSE {})

\* the smooth easing of part_002, lines 488-491
smoothEase(t) == Mul(Mul(t, t), Sub(Whole(3), Mul(Whole(2), t)))

\* part_002, lines 493-505: the opacity and the fragment size of the reveal
\* inside the polygon
polygonReveal(p) ==
    IF Lt(p, Num(1, 2))
    THEN LET eased == smoothEase(Div(p, Num(1, 2)))
         IN  [videoAlpha |-> Mul(eased, Num(9, 10)),
              fragmentSize |-> Sub(Whole(32), Mul(eased, Whole(20)))]
    ELSE LET eased == smoothEase(Div(Sub(p, Num(1, 2)), Num(1, 2)))
         IN  [videoAlpha |-> Sub(Num(9, 10), Mul(eased, Num(9, 10))),
              fragmentSize |-> Add(Whole(12), Mul(eased, Whole(20)))]

\* bounds.minX and its like as a number: the object that
\* calculatePolygonScreenBounds returns (part_002, lines 327-330) has the
\* properties points and svgRect only, so the read gives undefined, which
\* Math.floor and < turn into NaN
boundsNumber(bounds, name) ==
    IF name \in DOMAIN bounds THEN bounds[name] ELSE NaN

\* the values a loop `for (v = lo; v < hi; v += step)` visits; none when the
\* first comparison involves NaN
fragmentStarts(lo, hi, step) ==
    IF IsNaN(lo) \/ IsNaN(hi) THEN {}
    ELSE {Add(lo, Mul(Whole(k), step)) :
              k \in {j \in 0..MaxFragments :
                         Lt(Add(lo, Mul(Whole(j), step)), hi)}}

\* part_002, lines 468-534: the reveal clipped to the polygon, drawn after
\* the blocks (layer "fragment": one fragment of the grid; layer "clear":
\* the whole frame)
drawPolygonReveal(bounds, p, size) ==
    IF bounds.isNull \/ Len(bounds.points) = 0 THEN {}
    ELSE LET r == polygonReveal(p)
         IN  IF Gt(r.fragmentSize, Whole(8))
             THEN {[kind |-> "video", layer |-> "fragment",
                    left |-> c[1], top |-> c[2],
                    width |-> r.fragmentSize, height |-> r.fragmentSize,
                    alpha |-> r.videoAlpha, half |-> "both"] :
                      c \in {d \in fragmentStarts(
                                      Floor(boundsNumber(bounds, "minX")),
                                      boundsNumber(bounds, "maxX"),
                                      r.fragmentSize)
                                  \X fragmentStarts(
                                      Floor(boundsNumber(bounds, "minY")),
                                      boundsNumber(bounds, "maxY"),
                                      r.fragmentSize) :
                                isPointInPolygon(bounds,
                                    [x |-> Add(d[1], Div(r.fragmentSize, Whole(2))),
                                     y |-> Add(d[2], Div(r.fragmentSize, Whole(2)))])}}
             ELSE {[kind |-> "video", layer |-> "clear",
                    left |-> Zero, top |-> Zero,
                    width |-> Whole(size[1]), height |-> Whole(size[2]),
                    alpha |-> r.videoAlpha, half |-> "both"]}

\* the drawing of part_002 without the test of the bubbles
drawMatrixEffectNoBubbles(cols, p, size, decodable) ==
    IF ~decodable THEN {}
    ELSE UNION {{[kind |-> "video", layer |-> "cell",
                  left |-> Whole(cols[i].x), top |-> cols[i].pixels[k].y,
                  width |-> Whole(pixelSize), height |-> Whole(pixelSize),
                  alpha |-> One, half |-> "both"] :
                    k \in {j \in 1..Len(cols[i].pixels) :
                        LET centre ==
                                [x |-> Add(Whole(cols[i].x), Num(pixelSize, 2)),
                                 y |-> Add(cols[i].pixels[j].y, Num(pixelSize, 2))]
                        IN  ~isPointInPolygon(polygonBounds, centre)}} :
                  i \in {c \in 1..Len(cols) : cols[c].active}}
         \cup drawPolygonReveal(polygonBounds, p, size)

\* drawMatrixEffect of part_002, lines 429-535, after its black fill: the
\* blocks outside the polygon zone and the bubbles, then the reveal inside
\* the polygon
drawMatrixEffectZones(cols, p, size, decodable) ==
    IF ~decodable THEN {}
    ELSE UNION {{[kind |-> "video", layer |-> "cell",
                  left |-> Whole(cols[i].x), top |-> cols[i].pixels[k].y,
                  width |-> Whole(pixelSize), height |-> Whole(pixelSize),
                  alpha |-> One, half |-> "both"] :
                    k \in {j \in 1..Len(cols[i].pixels) :
                        LET centre ==
                                [x |-> Add(Whole(cols[i].x), Num(pixelSize, 2)),
                                 y |-> Add(cols[i].pixels[j].y, Num(pixelSize, 2))]
                        IN  /\ ~isPointInPolygon(polygonBounds, centre)
                            /\ ~isPointInBubble(bubbleZones, centre)}} :
                  i \in {c \in 1..Len(cols) : cols[c].active}}
         \cup drawPolygonReveal(polygonBounds, p, size)

\* animate(), lines 231-233: elapsed at clock step t from the baseline t0
MatrixElapsed(t, t0) == Whole((t - t0) * MatrixStepMs)

\* the body of animate() while isAnimating, lines 226-251: cols are the
\* columns at its entry, t0 the baseline in force
matrixBody(video, t0, cols, queue, next) ==
    LET resize == video[1] # 0 /\ canvas[1] # video[1]
        size == IF resize THEN updateCanvasSize(video) ELSE canvas
        cols0 == IF resize THEN initColumns(size[1]) ELSE cols
        elapsed == MatrixElapsed(scanNow, t0)
        p == CycleProgress(elapsed, matrixDuration)
        dens == getPixelDensity(p)
    IN  /\ animationStartTime' = t0
        /\ canvas' = size
        /\ lastElapsed' = elapsed
        /\ lastProgress' = p
        /\ \E draws \in [1..Len(cols0) -> Draws] :
               columns' = updateColumns(cols0, elapsed, dens, size[2], draws)
        /\ marks' = IF strategy = "zones"
                    THEN drawMatrixEffectZones(columns', p, size, readyState' >= 2)
                    ELSE drawMatrixEffect(columns', dens, size, readyState' >= 2)
        /\ videoDrawn' = (readyState' >= 2)
        /\ frameQueue' = queue
        /\ frameNext' = next

\* animate() while stopped, lines 221-224: the callback requests itself
\* again and returns
animateStoppedResets ==
    /\ frameQueue' = frameQueue - 1
    /\ frameNext' = frameNext + 1
    /\ animationStartTime' = -1
    /\ UNCHANGED <<canvas, columns, lastElapsed, lastProgress, marks,
                   videoDrawn>>

animateStopped ==
    /\ frameQueue' = frameQueue - 1
    /\ frameNext' = frameNext + 1
    /\ UNCHANGED <<animationStartTime, canvas, columns, lastElapsed,
                   lastProgress, marks, videoDrawn>>

(***************************************************************************)
(* SpecMatrix: one matrix dissolve and its video.  The callbacks of one    *)
(* displayed frame run back to back; the video's events, stop() and        *)
(* start() are handled between frames.                                     *)
(***************************************************************************)
\* new VideoScanEffect(video, canvas, 'full'): the fields, the canvas size,
\* the columns and the first animate() call, which takes the baseline
MatrixInit ==
    /\ polygonPoints = <<>>
    /\ progress = Zero
    /\ point = undefined
    /\ tracePc = "ready"
    /\ LandingFields
    /\ svgInDocument = TRUE
    /\ BoundaryFields
    /\ CurveFields
    /\ ZoneFields
    /\ strategy = "matrix"
    /\ sides = <<>>
    /\ videoSize = <<0, 0>>
    /\ readyState = 0
    /\ canvas = updateCanvasSize(<<0, 0>>)
    /\ isAnimating = TRUE
    /\ animationStartTime = 0
    /\ scanNow = 0
    /\ frameQueue = 0
    /\ frameNext = 1
    /\ pattern = Zero
    /\ blackLines = {}
    /\ videoDrawn = FALSE
    /\ marks = {}
    /\ lastElapsed = Zero
    /\ lastProgress = Zero
    /\ \E draws \in [1..Len(initColumns(canvas[1])) -> Draws] :
           columns = updateColumns(initColumns(canvas[1]), Zero,
                                   getPixelDensity(Zero), canvas[2], draws)
    /\ lastOp = "new"

\* the browser starts a frame: the clock has advanced and the callbacks
\* requested so far are due
matrixRepaint ==
    /\ frameQueue = 0
    /\ frameNext > 0
    /\ scanNow < MaxMatrixFrames
    /\ scanNow' = scanNow + 1
    /\ frameQueue' = frameNext
    /\ frameNext' = 0
    /\ lastOp' = "paint"
    /\ UNCHANGED <<polygonPoints, traceVars, boundaryVars, curveVars, zoneVars,
                   linesVars, columns, lastElapsed, lastProgress, videoSize,
                   readyState, canvas, isAnimating, animationStartTime,
                   pattern, blackLines, videoDrawn>>

\* a due callback runs animate()
matrixAnimate ==
    /\ frameQueue > 0
    /\ UNCHANGED <<polygonPoints, traceVars, boundaryVars, curveVars, zoneVars,
                   strategy, sides, videoSize, readyState, isAnimating,
                   scanNow, pattern, blackLines>>
    /\ IF ~isAnimating
       THEN /\ animateStopped
            /\ lastOp' = "skip"
       ELSE /\ matrixBody(videoSize,
                          IF animationStartTime = -1 THEN scanNow
                          ELSE animationStartTime,
                          columns, frameQueue - 1, frameNext + 1)
            /\ lastOp' = "frame"

\* stop(), lines 254-256
matrixStop ==
    /\ frameQueue = 0
    /\ isAnimating' = FALSE
    /\ lastOp' = "stop"
    /\ UNCHANGED <<polygonPoints, traceVars, boundaryVars, curveVars, zoneVars,
                   linesVars, videoSize, readyState, canvas,
                   animationStartTime, scanNow, frameQueue, frameNext, pattern,
                   blackLines, videoDrawn, columns, lastElapsed, lastProgress>>

\* start(), lines 258-263: the baseline is dropped, the columns are made
\* anew and animate() is called at once
matrixStart ==
    /\ frameQueue = 0
    /\ frameNext < MaxMatrixCallbacks
    /\ UNCHANGED <<polygonPoints, traceVars, boundaryVars, curveVars, zoneVars,
                   strategy, sides, videoSize, readyState, scanNow, pattern,
                   blackLines>>
    /\ isAnimating' = TRUE
    /\ matrixBody(videoSize, scanNow, initColumns(canvas[1]), frameQueue,
                  frameNext + 1)
    /\ lastOp' = (IF isAnimating THEN "start" ELSE "restart")

\* the video's metadata arrives: the intrinsic size is known and the
\* 'loadedmetadata' listener calls start()
matrixLoadedMetadata ==
    \E size \in MatrixVideoSizes :
        /\ frameQueue = 0
        /\ frameNext < MaxMatrixCallbacks
        /\ readyState = 0
        /\ readyState' = 1
        /\ videoSize' = size
        /\ UNCHANGED <<polygonPoints, traceVars, boundaryVars, curveVars,
                       zoneVars, strategy, sides, scanNow, pattern,
                       blackLines>>
        /\ isAnimating' = TRUE
        /\ matrixBody(size, scanNow, initColumns(canvas[1]), frameQueue,
                      frameNext + 1)
        /\ lastOp' = (IF isAnimating THEN "start" ELSE "restart")

\* the current frame of the video becomes decodable
matrixCanPlay ==
    /\ frameQueue = 0
    /\ readyState = 1
    /\ readyState' = 4
    /\ UNCHANGED <<polygonPoints, traceVars, boundaryVars, curveVars, zoneVars,
                   linesVars, matrixVars, videoSize, canvas, isAnimating,
                   animationStartTime, scanNow, frameQueue, frameNext, pattern,
                   blackLines, videoDrawn>>

MatrixNext ==
    \/ matrixRepaint
    \/ matrixAnimate
    \/ matrixStop
    \/ matrixStart
    \/ matrixLoadedMetadata
    \/ matrixCanPlay

SpecMatrix == MatrixInit /\ [][MatrixNext]_vars

(***************************************************************************)
(* SpecDissolve: the matrix dissolve with its exclusion zones, in the two  *)
(* versions of the class (video-scan-effect.js: polygon zone and the frame *)
(* shown through at high density; part_002: polygon zone, bubbles and the  *)
(* reveal inside the polygon), with frames at irregular intervals, a video *)
(* whose intrinsic size changes and reset().                               *)
(***************************************************************************)
\* clock steps between two displayed frames: 22.5 s, 30 s
DissolveGaps == {900, 1200}

\* intrinsic sizes of the video: as wide as the layout size or two columns
\* wide
DissolveVideoSizes == {<<3, 40>>, <<12, 40>>}

\* the page: the svg element over the canvas at the scale of its viewBox,
\* one navigation bubble at the right edge
DissolveLayout == Layout(TRUE, 0, 0, 1000, 1000, 1, 1)
DissolveBubbles == <<Bubble(14, 4, 0, 0)>>

\* calculatePolygonScreenBounds of video-scan-effect.js, lines 54-79
calculatePolygonScreenBoundsSvg(pts, lay) ==
    IF ~lay.svg THEN NullBounds
    ELSE LET scaleX == Div(lay.width, Whole(viewBoxSize))
             scaleY == Div(lay.height, Whole(viewBoxSize))
         IN  [isNull |-> FALSE,
              points |->
                  [i \in 1..Len(pts) |->
                      [x |-> Add(lay.left, Mul(pts[i].x, scaleX)),
                       y |-> Add(lay.top, Mul(pts[i].y, scaleY))]]]

\* new VideoScanEffect(video, canvas, 'full') of either version: the
\* boundary animation has no points yet, so checkBoundary starts polling
DissolveInit ==
    /\ polygonPoints = <<>>
    /\ progress = Zero
    /\ point = undefined
    /\ tracePc = "ready"
    /\ LandingFields
    /\ svgInDocument = TRUE
    /\ BoundaryFields
    /\ CurveFields
    /\ strategy \in {"matrix", "zones"}
    /\ sides = <<>>
    /\ layout = DissolveLayout
    /\ bubbles = (IF strategy = "zones" THEN DissolveBubbles ELSE <<>>)
    /\ polygonBounds = NullBounds
    /\ bubbleZones = initBubbleExclusion(bubbles, layout)
    /\ polling = TRUE
    /\ probeIndex = 0
    /\ testPoint = [x |-> Zero, y |-> Zero]
    /\ inPolygon = FALSE
    /\ inBubble = FALSE
    /\ videoSize = <<0, 0>>
    /\ readyState = 0
    /\ canvas = updateCanvasSize(<<0, 0>>)
    /\ isAnimating = TRUE
    /\ animationStartTime = 0
    /\ scanNow = 0
    /\ frameQueue = 0
    /\ frameNext = 1
    /\ pattern = Zero
    /\ blackLines = {}
    /\ videoDrawn = FALSE
    /\ marks = {}
    /\ lastElapsed = Zero
    /\ lastProgress = Zero
    /\ \E draws \in [1..Len(initColumns(canvas[1])) -> Draws] :
           columns = updateColumns(initColumns(canvas[1]), Zero,
                                   getPixelDensity(Zero), canvas[2], draws)
    /\ lastOp = "new"

\* the browser starts a frame, any of the intervals after the last one
repaintAfterGap ==
    \E gap \in DissolveGaps :
        /\ frameQueue = 0
        /\ frameNext > 0
        /\ curveFrames' = curveFrames + 1
        /\ scanNow' = scanNow + gap
        /\ frameQueue' = frameNext
        /\ frameNext' = 0
        /\ lastOp' = "paint"
        /\ UNCHANGED <<polygonPoints, traceVars, boundaryVars, zoneVars,
                       linesVars, columns, lastElapsed, lastProgress, videoSize,
                       readyState, canvas, isAnimating, animationStartTime,
                       pattern, blackLines, videoDrawn, curveStart, curveNow,
                       matrixProgress, density, waveProgress, waveCenter,
                       boundaryProgress, landingProgress>>

dissolveRepaint ==
    /\ curveFrames < MaxDissolveFrames
    /\ repaintAfterGap

sweepRepaint ==
    /\ curveFrames < MaxSweepFrames
    /\ repaintAfterGap

\* boundaryAnimation finishes loading its polygon
dissolveBoundaryLoaded ==
    /\ frameQueue = 0
    /\ polygonPoints = <<>>
    /\ polygonPoints' = Square
    /\ UNCHANGED <<traceVars, boundaryVars, scanVars, effectVars>>

\* checkBoundary of initPolygonExclusion (lines 43-50; part_002, lines
\* 242-249): the zone is set once the boundary animation has points, else
\* the timer is set again
dissolveCheckBoundary ==
    /\ frameQueue = 0
    /\ polling
    /\ IF Len(polygonPoints) > 0
       THEN /\ polygonBounds' =
                   IF strategy = "zones"
                   THEN calculatePolygonScreenBounds(polygonPoints, layout)
                   ELSE calculatePolygonScreenBoundsSvg(polygonPoints, layout)
            /\ polling' = FALSE
       ELSE UNCHANGED <<polygonBounds, polling>>
    /\ UNCHANGED <<polygonPoints, traceVars, boundaryVars, scanVars, curveVars,
                   linesVars, matrixVars, bubbleZones, layout, bubbles,
                   probeIndex, testPoint, inPolygon, inBubble>>

\* the video's metadata arrives: the intrinsic size is known and the
\* 'loadedmetadata' listener calls start()
dissolveLoadedMetadata ==
    \E size \in DissolveVideoSizes :
        /\ frameQueue = 0
        /\ frameNext < MaxMatrixCallbacks
        /\ readyState = 0
        /\ readyState' = 1
        /\ videoSize' = size
        /\ UNCHANGED <<polygonPoints, traceVars, boundaryVars, curveVars,
                       zoneVars, strategy, sides, scanNow, pattern,
                       blackLines>>
        /\ isAnimating' = TRUE
        /\ matrixBody(size, scanNow, initColumns(canvas[1]), frameQueue,
                      frameNext + 1)
        /\ lastOp' = (IF isAnimating THEN "start" ELSE "restart")

\* the intrinsic size of the playing video changes; the class listens to
\* no event for it
dissolveVideoResize ==
    \E size \in DissolveVideoSizes \ {videoSize} :
        /\ frameQueue = 0
        /\ readyState >= 1
        /\ videoSize' = size
        /\ lastOp' = "resize"
        /\ UNCHANGED <<polygonPoints, traceVars, boundaryVars, curveVars,
                       zoneVars, linesVars, columns, lastElapsed, lastProgress,
                       readyState, canvas, isAnimating, animationStartTime,
                       scanNow, frameQueue, frameNext, pattern, blackLines,
                       videoDrawn>>

\* reset(), lines 265-268: the baseline is dropped and the columns are
\* made anew; no frame is drawn
dissolveReset ==
    /\ frameQueue = 0
    /\ lastOp # "reset"
    /\ animationStartTime' = -1
    /\ columns' = initColumns(canvas[1])
    /\ lastOp' = "reset"
    /\ UNCHANGED <<polygonPoints, traceVars, boundaryVars, curveVars, zoneVars,
                   linesVars, lastElapsed, lastProgress, videoSize, readyState,
                   canvas, isAnimating, scanNow, frameQueue, frameNext, pattern,
                   blackLines, videoDrawn>>

\* what is drawn: the zones are set and the video becomes decodable while
\* frames are displayed
DissolveNext ==
    \/ dissolveRepaint
    \/ matrixAnimate
    \/ dissolveBoundaryLoaded
    \/ dissolveCheckBoundary
    \/ dissolveLoadedMetadata
    \/ matrixCanPlay

SpecDissolve == DissolveInit /\ [][DissolveNext]_vars

\* the columns: the video is resized and the effect reset while frames are
\* displayed
SweepNext ==
    \/ sweepRepaint
    \/ matrixAnimate
    \/ dissolveLoadedMetadata
    \/ dissolveVideoResize
    \/ dissolveReset

SpecSweep == DissolveInit /\ [][SweepNext]_vars

(***************************************************************************)
(* VideoScanEffect of part_002, lines 1-192: two instances, one drawing    *)
(* the left video and one the right, each with its own clock baseline and  *)
(* its own chain of frame callbacks.                                       *)
(***************************************************************************)
sideAnimationDuration == 30000
bandHeight == 7
sideLineHeight == 1

Sides == {"left", "right"}

\* the intrinsic size of the two videos
SideVideoSize == <<4, 2 * bandHeight>>

\* getScrollProgress(progress) of the instance of one side
getScrollProgress(side, p) ==
    LET cycleProgress == Rem(p, One)
    IN  IF side = "left"
        THEN IF Lt(cycleProgress, Num(1, 2))
             THEN Div(cycleProgress, Num(1, 2))
             ELSE One
        ELSE IF Geq(cycleProgress, Num(1, 2))
             THEN Div(Sub(cycleProgress, Num(1, 2)), Num(1, 2))
             ELSE Zero

\* the right side taken as active only after the middle of the cycle
isActiveAfterMiddle(side, p) ==
    LET cycleProgress == Rem(p, One)
    IN  \/ side = "left" /\ Lt(cycleProgress, Num(1, 2))
        \/ side = "right" /\ Gt(cycleProgress, Num(1, 2))

\* drawReveal, lines 68-76: isActive
isActive(side, p) ==
    LET cycleProgress == Rem(p, One)
    IN  \/ side = "left" /\ Lt(cycleProgress, Num(1, 2))
        \/ side = "right" /\ Geq(cycleProgress, Num(1, 2))

\* drawReveal, lines 108-120: the lines filled black over the video on a
\* canvas of height h
sideBlackLines(scrollPixels, h) ==
    {y \in {k \in 0..(h - 1) : k % sideLineHeight = 0} :
        LET adjustedY == Rem(Add(Whole(y), scrollPixels), Whole(h * 2))
            bandSize == Div(Whole(h), Whole(bandHeight * 2))
            positionInBand == Rem(Div(adjustedY, bandSize),
                                  Whole(bandHeight * 2))
        IN  Geq(positionInBand, Whole(bandHeight))}

\* drawReveal(progress) after its black fill: nothing more while the side
\* is not active; else the video frame, when one is decodable, and the
\* black lines over it
drawReveal(side, p, h, decodable) ==
    IF ~isActive(side, p)
    THEN [isActive |-> FALSE, videoDrawn |-> FALSE, blackLines |-> {}]
    ELSE LET scrollProgress == getScrollProgress(side, p)
             scrollPixels == IF side = "left"
                             THEN Mul(Sub(One, scrollProgress), Whole(h))
                             ELSE Mul(scrollProgress, Whole(h))
         IN  [isActive |-> TRUE, videoDrawn |-> decodable,
              blackLines |-> sideBlackLines(scrollPixels, h)]

\* animate(), lines 135-137: the progress of a frame at clock step t
SideProgress(t, baseline) ==
    LET elapsed == Div(Whole((t - baseline) * sideAnimationDuration),
                       Whole(SideStepsPerCycle))
    IN  Div(Rem(elapsed, Whole(sideAnimationDuration)),
            Whole(sideAnimationDuration))

\* the body of animate() while isAnimating, on the instance record inst of
\* one side at clock step t; the callback it requests is counted by the
\* caller
sideFrame(side, inst, t) ==
    LET baseline == IF inst.animationStartTime = -1 THEN t
                    ELSE inst.animationStartTime
        p == SideProgress(t, baseline)
        size == IF inst.videoSize[1] # 0 /\ inst.canvas[1] # inst.videoSize[1]
                THEN updateCanvasSize(inst.videoSize) ELSE inst.canvas
        drawn == drawReveal(side, p, size[2], inst.readyState >= 2)
    IN  [inst EXCEPT !.animationStartTime = baseline,
                     !.canvas = size,
                     !.progress = p,
                     !.isActive = drawn.isActive,
                     !.videoDrawn = drawn.videoDrawn,
                     !.blackLines = drawn.blackLines]

\* new VideoScanEffect(video, canvas, side) at clock step 0: the fields,
\* the canvas size and the first animate() call
sideConstructed(side) ==
    LET fields == [videoSize |-> <<0, 0>>, readyState |-> 0,
                   canvas |-> updateCanvasSize(<<0, 0>>),
                   isAnimating |-> TRUE, animationStartTime |-> -1,
                   progress |-> Zero, isActive |-> FALSE,
                   videoDrawn |-> FALSE, blackLines |-> {},
                   queue |-> 0, next |-> 1]
    IN  sideFrame(side, fields, 0)

\* initVideoScanEffects(): both pairs of elements are on the page
SidesInit ==
    /\ polygonPoints = <<>>
    /\ progress = Zero
    /\ point = undefined
    /\ tracePc = "ready"
    /\ LandingFields
    /\ svgInDocument = TRUE
    /\ BoundaryFields
    /\ ScanConstructed
    /\ CurveFields
    /\ ZoneFields
    /\ MatrixFields
    /\ strategy = "sides"
    /\ marks = {}
    /\ sides = [s \in Sides |-> sideConstructed(s)]

\* the browser starts a frame: the clock has advanced and the callbacks
\* both instances requested so far are due
sidesRepaint ==
    /\ \A s \in Sides : sides[s].queue = 0
    /\ scanNow < MaxSideSteps
    /\ scanNow' = scanNow + 1
    /\ sides' = [s \in Sides |->
                    [sides[s] EXCEPT !.queue = sides[s].next, !.next = 0]]
    /\ UNCHANGED <<polygonPoints, traceVars, boundaryVars, curveVars, zoneVars,
                   matrixVars, strategy, marks, videoSize, readyState, canvas,
                   isAnimating, animationStartTime, frameQueue, frameNext,
                   pattern, blackLines, videoDrawn>>

\* a due callback of one instance runs animate()
sideAnimate ==
    \E s \in Sides :
        /\ sides[s].queue > 0
        /\ sides' = [sides EXCEPT
                        ![s] = [sideFrame(s, sides[s], scanNow) EXCEPT
                                   !.queue = sides[s].queue - 1,
                                   !.next = sides[s].next + 1]]
        /\ UNCHANGED <<polygonPoints, traceVars, boundaryVars, scanVars,
                       curveVars, zoneVars, matrixVars, strategy, marks>>

\* 'loadedmetadata' of one video: the intrinsic size is known and the
\* listener calls start(), which clears the baseline and runs animate()
sideLoadedMetadata ==
    \E s \in Sides :
        /\ \A o \in Sides : sides[o].queue = 0
        /\ sides[s].readyState = 0
        /\ sides[s].next < MaxSideCallbacks
        /\ sides' = [sides EXCEPT
                        ![s] = [sideFrame(s,
                                    [sides[s] EXCEPT
                                        !.videoSize = SideVideoSize,
                                        !.readyState = 1,
                                        !.isAnimating = TRUE,
                                        !.animationStartTime = -1],
                                    scanNow)
                                EXCEPT !.next = sides[s].next + 1]]
        /\ UNCHANGED <<polygonPoints, traceVars, boundaryVars, scanVars,
                       curveVars, zoneVars, matrixVars, strategy, marks>>

\* one video has decoded enough to be drawn
sideCanPlay ==
    \E s \in Sides :
        /\ \A o \in Sides : sides[o].queue = 0
        /\ sides[s].readyState = 1
        /\ sides' = [sides EXCEPT ![s].readyState = 4]
        /\ UNCHANGED <<polygonPoints, traceVars, boundaryVars, scanVars,
                       curveVars, zoneVars, matrixVars, strategy, marks>>

SidesNext ==
    \/ sidesRepaint
    \/ sideAnimate
    \/ sideLoadedMetadata
    \/ sideCanPlay

SpecSides == SidesInit /\ [][SidesNext]_vars

(***************************************************************************)
(* Vocabulary of the path-tracer properties.                               *)
(***************************************************************************)
Called == tracePc = "returned"
\* LandingAnimation has placed its marker
Updated == tracePc = "updated"
InUnitRange(p) == Geq(p, Zero) /\ Lt(p, One)
Edges(pts) == 1..Len(pts)
PositivePerimeter(pts) == Gt(calculatePerimeter(pts), Zero)
AllEdgesPositive(pts) ==
    /\ Len(pts) >= 2
    /\ \A i \in Edges(pts) : pts[i] # NextVertex(pts, i)
FinitePoint(pt) == IsFinite(pt.x) /\ IsFinite(pt.y)

\* squared distance between two points
Dist2(p, q) ==
    LET dx == Sub(q.x, p.x)
        dy == Sub(q.y, p.y)
    IN  Add(Mul(dx, dx), Mul(dy, dy))
Sq(a) == Mul(a, a)
Min(a, b) == IF Leq(a, b) THEN a ELSE b
AbsDiff(a, b) == IF Leq(a, b) THEN Sub(b, a) ELSE Sub(a, b)

\* pt lies on the closed segment from a to b
OnEdge(pt, a, b) ==
    /\ FinitePoint(pt)
    /\ Mul(Sub(b.x, a.x), Sub(pt.y, a.y)) = Mul(Sub(b.y, a.y), Sub(pt.x, a.x))
    /\ Leq(Min(a.x, b.x), pt.x) /\ Leq(pt.x, IF Leq(a.x, b.x) THEN b.x ELSE a.x)
    /\ Leq(Min(a.y, b.y), pt.y) /\ Leq(pt.y, IF Leq(a.y, b.y) THEN b.y ELSE a.y)
OnBoundary(pt, pts) ==
    \E i \in Edges(pts) : OnEdge(pt, pts[i], NextVertex(pts, i))

\* arc length from the first vertex to the end of edge i
RECURSIVE CumEnd(_, _)
CumEnd(pts, i) ==
    IF i = 0 THEN Zero
    ELSE Add(CumEnd(pts, i - 1), distance(pts[i], NextVertex(pts, i)))

\* the first edge whose cumulative end length reaches the target
ContainingEdge(pts, target) ==
    CHOOSE i \in Edges(pts) :
        /\ Geq(CumEnd(pts, i), target)
        /\ \A j \in 1..(i - 1) : Lt(CumEnd(pts, j), target)

\* pt is the point of edge i at arc length target from the first vertex
AtArcLength(pt, pts, i, target) ==
    /\ OnEdge(pt, pts[i], NextVertex(pts, i))
    /\ Dist2(pt, pts[i]) = Sq(Sub(target, CumEnd(pts, i - 1)))
    /\ Dist2(pt, NextVertex(pts, i)) = Sq(Sub(CumEnd(pts, i), target))

(***************************************************************************)
(* C1.  For every polygon with at least 3 vertices and positive perimeter, *)
(* also one whose first two vertices coincide, getPointOnPath(0) is        *)
(* exactly the first vertex, and LandingAnimation puts its marker there.   *)
(***************************************************************************)
C1_ZeroIsFirstVertex ==
    (Len(polygonPoints) >= 3 /\ PositivePerimeter(polygonPoints)
        /\ progress = Zero)
    => /\ Called => point = polygonPoints[1]
       /\ Updated => boundaryPoint = <<polygonPoints[1].x, polygonPoints[1].y>>

(***************************************************************************)
(* C2.  For every polygon with positive perimeter and every progress in    *)
(* [0,1), the returned point lies on one of the closed-boundary edges      *)
(* (vertex i to vertex (i+1) mod n).                                       *)
(***************************************************************************)
C2_PointOnBoundary ==
    (Called /\ PositivePerimeter(polygonPoints) /\ InUnitRange(progress))
    => OnBoundary(point, polygonPoints)

Loaded == svgPoints # <<>>
\* fewer than 2 vertices, or a perimeter that is not a positive number
DegenerateList(pts) == Len(pts) < 2 \/ ~PositivePerimeter(pts)

(***************************************************************************)
(* C4.  Once a load has delivered a polygon with fewer than 2 vertices or  *)
(* without a positive perimeter, the error DegeneratePolygonError has been *)
(* raised and no trace animation is running or scheduled.                  *)
(***************************************************************************)
C4_DegenerateRejected ==
    (Loaded /\ DegenerateList(polygonPoints))
    => /\ lastError = "DegeneratePolygonError"
       /\ ~isRunning
       /\ pendingFrames = {}

(***************************************************************************)
(* C5.  For every vertex list the tracer accepts (at least 2 vertices,     *)
(* positive perimeter, zero-length edges allowed) and every progress in    *)
(* [0,1), the returned x and y are defined numbers, and so are the         *)
(* coordinates LandingAnimation gives its marker.                          *)
(***************************************************************************)
C5_DefinedCoordinates ==
    (Len(polygonPoints) >= 2 /\ PositivePerimeter(polygonPoints)
        /\ InUnitRange(progress))
    => /\ Called => FinitePoint(point)
       /\ Updated => IsFinite(boundaryPoint[1]) /\ IsFinite(boundaryPoint[2])

(***************************************************************************)
(* C6.  For every polygon with positive-length edges and every p in [0,1)  *)
(* the returned point is the point at arc length p * perimeter from the    *)
(* first vertex along the edges in vertex order, on the first edge whose   *)
(* cumulative end length is >= the target; the square of section 8 at      *)
(* p = 0.125 gives (5, 0).                                                 *)
(***************************************************************************)
C6_ArcLengthPoint ==
    (Called /\ AllEdgesPositive(polygonPoints) /\ InUnitRange(progress))
    => LET target == Mul(CumEnd(polygonPoints, Len(polygonPoints)), progress)
       IN  /\ AtArcLength(point, polygonPoints,
                          ContainingEdge(polygonPoints, target), target)
           /\ (polygonPoints = Square /\ progress = Num(1, 8))
                  => point = Pt(5, 0)

C6_Witness ==
    /\ Called
    /\ polygonPoints = Square
    /\ progress = Num(1, 8)
    /\ point = Pt(5, 0)

(***************************************************************************)
(* C7 as stated.  For the square (0,0),(10,0),(10,10),(0,10),              *)
(* getPointOnPath(0.25) returns (10, 10).                                  *)
(***************************************************************************)
C7_QuarterIsTenTen ==
    (Called /\ polygonPoints = Square /\ progress = Num(1, 4))
    => point = Pt(10, 10)

(***************************************************************************)
(* C7 amended.  For that square getPointOnPath(0.25) returns (10, 0), the  *)
(* second vertex: the end of the first edge, at arc length 10.             *)
(***************************************************************************)
C7_QuarterIsSecondVertex ==
    (Called /\ polygonPoints = Square /\ progress = Num(1, 4))
    => point = Pt(10, 0) /\ point = polygonPoints[2]

C7_Witness ==
    /\ Called
    /\ polygonPoints = Square
    /\ progress = Num(1, 4)
    /\ point = Pt(10, 0)

(***************************************************************************)
(* C8.  Continuity around the closed loop: for every polygon with          *)
(* positive-length edges, two progress values in [0,1) whose target arc    *)
(* lengths differ by d, measured the shorter way round the loop, yield     *)
(* points at distance at most d; taking the other progress as 0 this       *)
(* bounds the distance to the first vertex by the arc length left to the   *)
(* end of the loop.                                                        *)
(***************************************************************************)
C8_Continuous ==
    (Called /\ AllEdgesPositive(polygonPoints) /\ InUnitRange(progress))
    => LET perimeter == CumEnd(polygonPoints, Len(polygonPoints))
       IN  \A q \in ProgressSet :
               LET a == AbsDiff(Mul(perimeter, progress), Mul(perimeter, q))
                   d == Min(a, Sub(perimeter, a))
               IN  Leq(Dist2(point, getPointOnPath(polygonPoints, q)), Sq(d))

\* a call late in the loop, close to the first vertex but not on it
C8_Witness ==
    /\ Called
    /\ AllEdgesPositive(polygonPoints)
    /\ Len(polygonPoints) >= 3
    /\ Geq(progress, Num(7, 8))
    /\ InUnitRange(progress)
    /\ point # polygonPoints[1]
    /\ Leq(Dist2(point, polygonPoints[1]),
           Sq(Mul(calculatePerimeter(polygonPoints), Sub(One, progress))))

(***************************************************************************)
(* Vocabulary of the line-band scan properties.                            *)
(***************************************************************************)
\* the 2N consecutive lines that start with the line at y
Run(y) == {y + k * lineHeight : k \in 0..(2 * linesPerBand - 1)}
RunsOnSurface(h) == {y \in LineStarts(h) : Run(y) \subseteq LineStarts(h)}

\* floor((y + scrollOffset) / lineThickness) mod 2N < N
FormulaVisible(lineY, scrollOffset) ==
    Lt(Rem(Floor(Div(Add(Whole(lineY), scrollOffset), Whole(lineHeight))),
           Whole(2 * linesPerBand)),
       Whole(linesPerBand))

(***************************************************************************)
(* C9.  Line-band scan visibility ratio: for every scroll offset reached   *)
(* in a cycle and every surface height, any run of 2N consecutive lines    *)
(* on the surface holds exactly N visible and N black lines.               *)
(***************************************************************************)
C9_BandRatio ==
    \A y \in RunsOnSurface(canvas[2]) :
        /\ Cardinality(Run(y) \cap blackLines) = linesPerBand
        /\ Cardinality(Run(y) \ blackLines) = linesPerBand

(***************************************************************************)
(* C10.  Line-band scan formula: for every line y of the surface and       *)
(* every scroll offset, the line is visible exactly when                   *)
(* floor((y + scrollOffset) / lineThickness) mod 2N < N; with scroll       *)
(* offset 0 the lines in [0,14) are visible and those in [14,28) black.    *)
(***************************************************************************)
C10_LineFormula ==
    /\ \A y \in LineStarts(canvas[2]) :
           (y \notin blackLines)
               <=> FormulaVisible(y, pattern)
    /\ pattern = Zero =>
           \A y \in LineStarts(canvas[2]) :
               /\ y < 14 => y \notin blackLines
               /\ (14 <= y /\ y < 28) => y \in blackLines

(***************************************************************************)
(* Vocabulary of the progress and curve properties.                        *)
(***************************************************************************)
FrameComputed == curveFrames > 0
InClosedRange(v, lo, hi) == Geq(v, lo) /\ Leq(v, hi)

(***************************************************************************)
(* C11.  Matrix density curve: the density is 0.2 at progress 0 and 1.0 at *)
(* progress 0.5, it approaches 0.2 as the progress approaches 1 (its       *)
(* excess over 0.2 is 1.6 times the distance of the progress from 1), the  *)
(* two branches agree at 0.5 (the distance of the density from 1.0 is 1.6  *)
(* times the distance of the progress from 0.5, on both sides), and for    *)
(* every progress in [0,1) the density stays within [0.2, 1.0].            *)
(***************************************************************************)
C11_DensityCurve ==
    FrameComputed =>
        /\ InUnitRange(matrixProgress)
        /\ matrixProgress = Zero => density = Num(1, 5)
        /\ matrixProgress = Num(1, 2) => density = One
        /\ Geq(matrixProgress, Num(1, 2)) =>
               Sub(density, Num(1, 5)) = Mul(Num(8, 5), Sub(One, matrixProgress))
        /\ Sub(One, density) = Mul(Num(8, 5), AbsDiff(matrixProgress, Num(1, 2)))
        /\ InClosedRange(density, Num(1, 5), One)

\* the frame at the middle of the matrix cycle, after frames in both halves
C11_Witness ==
    /\ FrameComputed
    /\ matrixProgress = Num(1, 2)
    /\ density = One

(***************************************************************************)
(* C12.  Serpentine wave centre: for every progress p in [0,1) the centre  *)
(* is 1 - 2p below 0.5 and 2(p - 0.5) from 0.5 on, that is twice the       *)
(* distance of p from 0.5; it lies in [0,1], is 0 at p = 0.5 and 1 at      *)
(* p = 0, and towards the end of the cycle it comes back to 1 (its         *)
(* distance from 1 is twice the distance of p from 1).                     *)
(***************************************************************************)
C12_TriangleWave ==
    FrameComputed =>
        /\ InUnitRange(waveProgress)
        /\ waveCenter = Mul(Whole(2), AbsDiff(waveProgress, Num(1, 2)))
        /\ InClosedRange(waveCenter, Zero, One)
        /\ waveProgress = Num(1, 2) => waveCenter = Zero
        /\ waveProgress = Zero => waveCenter = One
        /\ Geq(waveProgress, Num(1, 2)) =>
               Sub(One, waveCenter) = Mul(Whole(2), Sub(One, waveProgress))

\* the last millisecond of the wave's cycle: the centre is almost back at 1
C12_Witness ==
    /\ FrameComputed
    /\ waveProgress = Num(29999, 30000)
    /\ waveCenter = Num(29998, 30000)

(***************************************************************************)
(* C19.  Progress range: in every frame of the matrix dissolve, of the     *)
(* 30-second effects, of the boundary trace and of the landing trace, for  *)
(* any positive interval between frames, the computed progress is at least *)
(* 0 and less than 1.                                                      *)
(***************************************************************************)
C19_ProgressInUnitRange ==
    FrameComputed =>
        /\ InUnitRange(matrixProgress)
        /\ InUnitRange(waveProgress)
        /\ InUnitRange(boundaryProgress)
        /\ InUnitRange(landingProgress)

\* a frame after every cycle has wrapped at least once
C19_Witness ==
    /\ FrameComputed
    /\ Gt(Elapsed(curveNow, curveStart), Whole(600000))
    /\ Gt(matrixProgress, Zero)
    /\ Gt(waveProgress, Zero)
    /\ Gt(boundaryProgress, Zero)
    /\ Gt(landingProgress, Zero)

(***************************************************************************)
(* Vocabulary of the exclusion-zone properties.                            *)
(***************************************************************************)
Probed == probeIndex > 0
ZonePoints == polygonBounds.points
PrevIndex(pts, i) == IF i = 1 THEN Len(pts) ELSE i - 1

\* twice the signed area of the triangle a, b, c
Cross(a, b, c) ==
    Sub(Mul(Sub(b.x, a.x), Sub(c.y, a.y)), Mul(Sub(b.y, a.y), Sub(c.x, a.x)))

\* s * v >= 0 and s * v > 0 for a sign s
OnSide(s, v) == IF s = 1 THEN Geq(v, Zero) ELSE Leq(v, Zero)
StrictlyOnSide(s, v) == IF s = 1 THEN Gt(v, Zero) ELSE Lt(v, Zero)

\* a simple convex polygon: at least three vertices, consecutive ones
\* distinct, every vertex on the same side of every edge, not all on a line
SimpleConvex(pts) ==
    /\ Len(pts) >= 3
    /\ \A i \in Edges(pts) : FinitePoint(pts[i]) /\ pts[i] # NextVertex(pts, i)
    /\ \E s \in {1, -1} :
           /\ \A i, k \in Edges(pts) :
                  OnSide(s, Cross(pts[i], NextVertex(pts, i), pts[k]))
           /\ \E i, k \in Edges(pts) :
                  StrictlyOnSide(s, Cross(pts[i], NextVertex(pts, i), pts[k]))

\* strictly inside a convex polygon: strictly on the inner side of every edge
StrictlyInside(pts, pt) ==
    \E s \in {1, -1} :
        \A i \in Edges(pts) :
            StrictlyOnSide(s, Cross(pts[i], NextVertex(pts, i), pt))

\* the mean of the vertices
RECURSIVE SumX(_, _)
SumX(pts, i) == IF i = 0 THEN Zero ELSE Add(pts[i].x, SumX(pts, i - 1))
RECURSIVE SumY(_, _)
SumY(pts, i) == IF i = 0 THEN Zero ELSE Add(pts[i].y, SumY(pts, i - 1))
Centroid(pts) == [x |-> Div(SumX(pts, Len(pts)), Whole(Len(pts))),
                  y |-> Div(SumY(pts, Len(pts)), Whole(Len(pts)))]

OutsideBox(pts, pt) ==
    \/ \A i \in Edges(pts) : Lt(pt.x, pts[i].x)
    \/ \A i \in Edges(pts) : Gt(pt.x, pts[i].x)
    \/ \A i \in Edges(pts) : Lt(pt.y, pts[i].y)
    \/ \A i \in Edges(pts) : Gt(pt.y, pts[i].y)

\* the horizontal ray from pt to the right crosses the edge from a to b
RayCrosses(a, b, pt) ==
    /\ Gt(a.y, pt.y) # Gt(b.y, pt.y)
    /\ LET num == Sub(Mul(Sub(b.x, a.x), Sub(pt.y, a.y)),
                      Mul(Sub(pt.x, a.x), Sub(b.y, a.y)))
       IN  IF Gt(b.y, a.y) THEN Gt(num, Zero) ELSE Lt(num, Zero)

CrossedEdges(pts, pt) ==
    {i \in Edges(pts) : RayCrosses(pts[i], pts[PrevIndex(pts, i)], pt)}

\* the point satisfies the ellipse inequality of the zone, cleared of its
\* divisions
InEllipse(zone, pt) ==
    /\ Gt(zone.radiusX, Zero)
    /\ Gt(zone.radiusY, Zero)
    /\ Leq(Add(Mul(Sq(Sub(pt.x, zone.centerX)), Sq(zone.radiusY)),
               Mul(Sq(Sub(pt.y, zone.centerY)), Sq(zone.radiusX))),
           Mul(Sq(zone.radiusX), Sq(zone.radiusY)))

OnEllipse(zone, pt) ==
    /\ Gt(zone.radiusX, Zero)
    /\ Gt(zone.radiusY, Zero)
    /\ Add(Mul(Sq(Sub(pt.x, zone.centerX)), Sq(zone.radiusY)),
           Mul(Sq(Sub(pt.y, zone.centerY)), Sq(zone.radiusX)))
           = Mul(Sq(zone.radiusX), Sq(zone.radiusY))

(***************************************************************************)
(* C13.  Ray-casting containment: when the polygon zone is a simple convex *)
(* polygon, the test is true for its centroid and for every point strictly *)
(* inside it, and false for every point outside its bounding box; for any  *)
(* zone the result is the parity of the number of edges (i, i - 1 mod n)   *)
(* that the ray to the right of the point crosses.                         *)
(***************************************************************************)
C13_RayCasting ==
    (Probed /\ ~polling /\ ~polygonBounds.isNull
        /\ inPolygon = isPointInPolygon(polygonBounds, testPoint)) =>
        /\ inPolygon <=> (Cardinality(CrossedEdges(ZonePoints, testPoint)) % 2 = 1)
        /\ SimpleConvex(ZonePoints) =>
               /\ testPoint = Centroid(ZonePoints) => inPolygon
               /\ StrictlyInside(ZonePoints, testPoint) => inPolygon
               /\ OutsideBox(ZonePoints, testPoint) => ~inPolygon

\* the centroid of a convex zone of a scaled and shifted layout, tested
C13_Witness ==
    /\ Probed
    /\ ~polling
    /\ ~polygonBounds.isNull
    /\ SimpleConvex(ZonePoints)
    /\ ZonePoints[1].x = Whole(-1)
    /\ testPoint = Centroid(ZonePoints)
    /\ inPolygon

(***************************************************************************)
(* C14.  Ellipse containment: the bubble test of a point is true exactly   *)
(* when at least one bubble zone satisfies                                 *)
(* ((x - cx)/rx)^2 + ((y - cy)/ry)^2 <= 1, points of the outline included, *)
(* and false when there are no zones.                                      *)
(***************************************************************************)
C14_EllipseTest ==
    Probed =>
        /\ inBubble <=> \E z \in 1..Len(bubbleZones) :
                            InEllipse(bubbleZones[z], testPoint)
        /\ bubbleZones = <<>> => ~inBubble

\* a point on the outline of the second of two zones and outside the first
C14_Witness ==
    /\ Probed
    /\ Len(bubbleZones) = 2
    /\ ~InEllipse(bubbleZones[1], testPoint)
    /\ OnEllipse(bubbleZones[2], testPoint)
    /\ testPoint.x # bubbleZones[2].centerX
    /\ testPoint.y # bubbleZones[2].centerY
    /\ inBubble

(***************************************************************************)
(* Vocabulary of the surface properties.                                   *)
(***************************************************************************)
\* the mark covers at least part of a row of the surface
OnSurface(m) ==
    /\ canvas[1] > 0
    /\ Gt(m.height, Zero)
    /\ Gt(Add(m.top, m.height), Zero)
    /\ Lt(m.top, Whole(canvas[2]))

SolidBlack == \A m \in marks : ~OnSurface(m)
CallbackPending == frameQueue + frameNext >= 1

(***************************************************************************)
(* C15.  Not yet decodable: while readyState < 2 the frame drawn by the    *)
(* moving-lines and the serpentine effects leaves the whole surface solid  *)
(* black (nothing white, nothing cleared, no video), and a callback stays  *)
(* pending so the next frame tries again.                                  *)
(***************************************************************************)
C15_BlackUntilDecodable ==
    readyState < 2 => SolidBlack /\ CallbackPending

(***************************************************************************)
(* Vocabulary of the matrix dissolve properties.                           *)
(***************************************************************************)
Columns == 1..Len(columns)
Fresh(col) == ~col.active /\ col.pixels = <<>>
PendingCallbacks == frameQueue + frameNext
Restarted == lastOp \in {"start", "restart"}

\* every block of the column was created in the frame just run: it has
\* fallen once from a start at or above the top
JustCreated(col) ==
    \A k \in 1..Len(col.pixels) : Leq(col.pixels[k].y, col.pixels[k].speed)

\* the density of C11 and the limit on the blocks of a column it gives
DensityAt(p) == Sub(One, Mul(Num(8, 5), AbsDiff(p, Num(1, 2))))
BlockLimit(p) == Ceil(Mul(Whole(15), DensityAt(p)))

\* a frame callback ran: only a callback takes one from the queue
CallbackRan == frameQueue' = frameQueue - 1

\* a frame was drawn on the columns it found: no re-initialisation
FrameOnSameColumns ==
    /\ isAnimating
    /\ CallbackRan
    /\ canvas' = canvas

(***************************************************************************)
(* C16.  Restart resets the clock: the frame start() runs observes elapsed *)
(* 0 and progress 0 whatever time had accumulated, the baseline is the     *)
(* time of the restart, and the columns were made anew before that frame:  *)
(* after it every column whose activation time has not come is inactive    *)
(* and empty, and the others hold only blocks created in that frame.       *)
(***************************************************************************)
C16_RestartResetsClock ==
    Restarted =>
        /\ lastElapsed = Zero
        /\ lastProgress = Zero
        /\ animationStartTime = scanNow
        /\ \A i \in Columns :
               IF columns[i].activationTime > 0
               THEN Fresh(columns[i])
               ELSE Len(columns[i].pixels) <= 2 /\ JustCreated(columns[i])

\* start() after a stop(), some frames after the construction, on a surface
\* of two columns
C16_Witness ==
    /\ lastOp = "restart"
    /\ scanNow >= 2
    /\ Len(columns) = 2
    /\ lastElapsed = Zero

(***************************************************************************)
(* C17.  One tick per displayed frame: after any sequence of construction, *)
(* start() and stop() calls, the start() of the 'loadedmetadata' listener  *)
(* included, at most one animate callback is pending.                      *)
(***************************************************************************)
C17_OneCallbackPending == PendingCallbacks <= 1

(***************************************************************************)
(* C18.  Cooperative stop: a frame callback that finds the instance        *)
(* stopped changes neither the surface nor the clock baseline, the surface *)
(* size, the columns or their blocks; it only requests the next callback.  *)
(***************************************************************************)
C18_CooperativeStop ==
    [][(~isAnimating /\ CallbackRan) =>
          /\ UNCHANGED <<marks, videoDrawn, animationStartTime, canvas, columns,
                         lastElapsed, lastProgress, isAnimating>>
          /\ PendingCallbacks' = PendingCallbacks]_vars

\* a stopped callback has run on an instance holding blocks
C18_Witness ==
    /\ ~isAnimating
    /\ lastOp = "skip"
    /\ animationStartTime # -1
    /\ \E i \in Columns : Len(columns[i].pixels) > 0

FrameProcessed == lastOp \in {"frame", "start", "restart"}

(***************************************************************************)
(* C21.  The per-column cap follows the density: at the end of every       *)
(* frame no column holds more blocks than the ceiling of 15 times the      *)
(* density of the frame's progress, in the rising and in the falling half  *)
(* of the cycle.                                                           *)
(***************************************************************************)
C21_CapFollowsDensity ==
    FrameProcessed =>
        \A i \in Columns :
            Leq(Whole(Len(columns[i].pixels)), BlockLimit(lastProgress))

(***************************************************************************)
(* C22.  Resize handling: at the end of every frame in which the video     *)
(* reports a nonzero intrinsic width and height, the surface has the       *)
(* intrinsic width and height and there are ceil(surface width /           *)
(* pixelSize) columns; a change of either dimension between two frames is  *)
(* picked up by the next frame.                                            *)
(***************************************************************************)
C22_SurfaceFollowsSource ==
    (FrameProcessed /\ videoSize[1] # 0 /\ videoSize[2] # 0) =>
        /\ canvas = videoSize
        /\ Whole(Len(columns)) = Ceil(Num(canvas[1], pixelSize))

(***************************************************************************)
(* C23.  Left-to-right activation sweep: a column is active exactly when a *)
(* frame processed since the columns were last made had an elapsed time of *)
(* at least its index times columnDelay.  A frame on newly made columns    *)
(* activates those whose time has come; a frame on the columns it found    *)
(* leaves the active ones active and activates those whose time has come;  *)
(* no other step changes which columns are active, except that reset()     *)
(* leaves none.  The active columns are always a prefix and an inactive    *)
(* column holds no block.                                                  *)
(***************************************************************************)
\* start() ran in the step: it adds a callback and is recorded
StartRan == lastOp' \in {"start", "restart"} /\ frameNext' = frameNext + 1

\* animate() ran to its end in the step, from a callback or from start()
FrameRan == (CallbackRan /\ isAnimating) \/ StartRan

\* that frame made the columns anew: through start(), or because the width
\* of the surface was not the video's
ColumnsRemade ==
    \/ StartRan
    \/ videoSize'[1] # 0 /\ canvas[1] # videoSize'[1]

TimeHasCome(i, elapsed) == Geq(elapsed, Whole((i - 1) * columnDelay))

C23_ActivationSweep ==
    /\ [](\A i \in Columns :
             /\ columns[i].active => \A j \in 1..(i - 1) : columns[j].active
             /\ ~columns[i].active => columns[i].pixels = <<>>)
    /\ [][IF FrameRan
          THEN \A i \in 1..Len(columns') :
                   columns'[i].active <=>
                       \/ ~ColumnsRemade /\ columns[i].active
                       \/ TimeHasCome(i, lastElapsed')
          ELSE \/ columns' = columns
               \/ \A i \in 1..Len(columns') : Fresh(columns'[i])]_vars

\* a frame at elapsed 0 after reset() on a surface of two columns: the first
\* column is active and holds blocks, the second is not yet
C23_Witness ==
    /\ lastOp = "frame"
    /\ Len(columns) = 2
    /\ columns[1].active
    /\ Len(columns[1].pixels) > 0
    /\ ~columns[2].active
    /\ lastElapsed = Zero

(***************************************************************************)
(* Vocabulary of what the matrix dissolve draws.                           *)
(***************************************************************************)
\* the centre of block k of column col
Centre(col, k) ==
    [x |-> Add(Whole(col.x), Num(pixelSize, 2)),
     y |-> Add(col.pixels[k].y, Num(pixelSize, 2))]

\* the frame drew block k of column col from the video
CellDrawn(surface, col, k) ==
    \E m \in surface :
        /\ m.layer = "cell"
        /\ m.left = Whole(col.x)
        /\ m.top = col.pixels[k].y
        /\ m.width = Whole(pixelSize)
        /\ m.height = Whole(pixelSize)

InPolygonZone(pt) ==
    ~polygonBounds.isNull /\ StrictlyInside(polygonBounds.points, pt)
InBubbleZone(pt) ==
    \E z \in 1..Len(bubbleZones) : InEllipse(bubbleZones[z], pt)

(***************************************************************************)
(* C24.  Exclusion zones suppress falling cells: a frame drawn from a      *)
(* decodable video draws no block whose centre lies inside the polygon     *)
(* zone or inside the ellipse of a bubble; while the polygon zone is not   *)
(* set (polygonBounds is null) the polygon test excludes nothing: every    *)
(* block of an active column outside the bubbles is drawn.                 *)
(***************************************************************************)
C24_ZonesSuppressCells ==
    [][(FrameRan /\ videoDrawn') =>
          \A i \in 1..Len(columns') :
              \A k \in 1..Len(columns'[i].pixels) :
                  LET col == columns'[i]
                      c == Centre(col, k)
                  IN  /\ (InPolygonZone(c) \/ InBubbleZone(c)) =>
                             ~CellDrawn(marks', col, k)
                      /\ (polygonBounds.isNull /\ col.active /\ ~InBubbleZone(c)) =>
                             CellDrawn(marks', col, k)]_vars

\* the part_002 version with its polygon zone set and a decodable video:
\* the block of the first column is inside the polygon, that of the second
\* inside a bubble, neither is drawn, and a block above them is
C24_Witness ==
    /\ strategy = "zones"
    /\ videoDrawn
    /\ Len(columns) = 2
    /\ \E k \in 1..Len(columns[1].pixels) :
           /\ InPolygonZone(Centre(columns[1], k))
           /\ ~InBubbleZone(Centre(columns[1], k))
           /\ ~CellDrawn(marks, columns[1], k)
    /\ \E k \in 1..Len(columns[2].pixels) :
           /\ InBubbleZone(Centre(columns[2], k))
           /\ ~InPolygonZone(Centre(columns[2], k))
           /\ ~CellDrawn(marks, columns[2], k)
    /\ \E k \in 1..Len(columns[2].pixels) : CellDrawn(marks, columns[2], k)

(***************************************************************************)
(* C26 as stated.  Matrix dissolve output: in every frame with a           *)
(* decodable video the only regions of the surface that show the video     *)
(* are the cells of blocks of active columns outside the exclusion zones;  *)
(* everything else is black, at every density reached.                     *)
(***************************************************************************)
\* the mark is the cell of a block of an active column outside the zones
CellOfActiveBlock(m, cols) ==
    \E i \in 1..Len(cols) :
        /\ cols[i].active
        /\ \E k \in 1..Len(cols[i].pixels) :
               /\ m.left = Whole(cols[i].x)
               /\ m.top = cols[i].pixels[k].y
               /\ m.width = Whole(pixelSize)
               /\ m.height = Whole(pixelSize)
               /\ ~InPolygonZone(Centre(cols[i], k))
               /\ ~InBubbleZone(Centre(cols[i], k))

WholeFrame(m, surface) ==
    /\ m.left = Zero
    /\ m.top = Zero
    /\ m.width = Whole(surface[1])
    /\ m.height = Whole(surface[2])

LeastOf(S) == CHOOSE v \in S : \A w \in S : Leq(v, w)
GreatestOf(S) == CHOOSE v \in S : \A w \in S : Geq(v, w)

\* the starts of the fragment grid along one axis of the polygon
GridStarts(coords, step) ==
    fragmentStarts(Floor(LeastOf(coords)), GreatestOf(coords), step)

C28_FragmentsRevealPolygon ==
    [][(/\ FrameRan
        /\ videoDrawn'
        /\ strategy = "zones"
        /\ ~polygonBounds'.isNull) =>
          LET pts == polygonBounds'.points
              r == polygonReveal(lastProgress')
              half == Div(r.fragmentSize, Whole(2))
          IN  \A x \in GridStarts({pts[i].x : i \in 1..Len(pts)}, r.fragmentSize),
                 y \in GridStarts({pts[i].y : i \in 1..Len(pts)}, r.fragmentSize) :
                  StrictlyInside(pts, [x |-> Add(x, half), y |-> Add(y, half)])
                      => \E m \in marks' :
                             /\ m.layer = "fragment"
                             /\ m.left = x
                             /\ m.top = y
                             /\ m.width = r.fragmentSize
                             /\ m.height = r.fragmentSize
                             /\ m.alpha = r.videoAlpha]_vars

(***************************************************************************)
(* C25.  Trail sampling: every animate() that draws, at a progress p in    *)
(* [0, 1), sets the trail to exactly 31 points ordered from back to        *)
(* front; sample i is the path point at the progress                       *)
(* p - 0.08 * (1 - i/30), taken one turn forward when it is negative, so   *)
(* every sample progress lies in [0, 1) also when p < 0.08; the first      *)
(* sample is the back point of the gradient and the last is the marker     *)
(* position at p.                                                          *)
(***************************************************************************)
\* animate() ran to its end in this step: it is the only writer of the
\* frame id, and it never requests the id it holds
AnimateDrew == animationFrameId' # animationFrameId

\* the place of trail sample i on the cycle
SampleProgress(p, i) ==
    LET behind == Sub(p, Mul(Num(8, 100), Sub(One, Num(i, 30))))
    IN  IF Lt(behind, Zero) THEN Add(behind, One) ELSE behind

C25_TrailSampling ==
    [][AnimateDrew =>
          LET p == FrameProgress(now', startTime')
          IN  /\ Geq(p, Zero) /\ Lt(p, One)
              /\ Len(traceLine') = 31
              /\ \A i \in 0..30 :
                     /\ Geq(SampleProgress(p, i), Zero)
                     /\ Lt(SampleProgress(p, i), One)
                     /\ traceLine'[i + 1]
                            = getPointOnPath(polygonPoints', SampleProgress(p, i))
              /\ traceLine'[1] = traceGradient'[1]
              /\ traceLine'[31] = getPointOnPath(polygonPoints', p)
              /\ tracePoint' = <<traceLine'[31].x, traceLine'[31].y>>]_vars

\* a trail drawn on the closed triangle at p = 0.04: its back lies before
\* the start of the path, at 0.96, its front at the marker
C25_Witness ==
    /\ Len(polygonPoints) = 4
    /\ isRunning
    /\ Len(traceLine) = 31
    /\ FrameProgress(now, startTime) = Num(1, 25)
    /\ tracePoint = <<traceLine[31].x, traceLine[31].y>>
    /\ traceLine[31] = getPointOnPath(polygonPoints, Num(1, 25))
    /\ traceLine[1] = getPointOnPath(polygonPoints, Num(24, 25))
    /\ traceLine[1] # traceLine[31]

(***************************************************************************)
(* C27.  Two-sided line-band scan: in the last frame of each instance the  *)
(* left one was active exactly when its cycle progress was below 0.5 and   *)
(* the right one exactly when it was 0.5 or more, so at one and the same   *)
(* progress exactly one of the two is active; the surface of an instance   *)
(* that was not active is entirely black: no video frame drawn on it.      *)
(***************************************************************************)
\* some line of the surface shows the video
ShowsVideo(inst) ==
    inst.videoDrawn /\ (0..(inst.canvas[2] - 1)) \ inst.blackLines # {}

C27_OneSideActive ==
    /\ \A s \in Sides :
           LET inst == sides[s]
               firstHalf == Lt(inst.progress, Num(1, 2))
           IN  /\ Geq(inst.progress, Zero) /\ Lt(inst.progress, One)
               /\ inst.isActive <=> (s = "left" <=> firstHalf)
               /\ ~inst.isActive => ~inst.videoDrawn /\ ~ShowsVideo(inst)
    /\ sides["left"].progress = sides["right"].progress
           => (sides["left"].isActive <=> ~sides["right"].isActive)

\* both instances drew their frame at the middle of the cycle: the right
\* one shows its video, the left one is black
C27_Witness ==
    /\ sides["left"].progress = Num(1, 2)
    /\ sides["right"].progress = Num(1, 2)
    /\ sides["left"].readyState = 4
    /\ sides["right"].readyState = 4
    /\ ShowsVideo(sides["right"])
    /\ ~sides["left"].isActive
    /\ ~ShowsVideo(sides["left"])

(***************************************************************************)
(* C29.  The two path tracers agree: on every vertex list with at least    *)
(* two vertices and every edge of positive length, and at every progress   *)
(* in [0, 1), LandingAnimation.updatePointPosition, reading its table of   *)
(* cumulative distances, puts the marker at the point that                 *)
(* boundaryAnimation.getPointOnPath returns for that progress.             *)
(***************************************************************************)
C29_TracersAgree ==
    (Updated /\ AllEdgesPositive(vertices) /\ InUnitRange(progress)) =>
        LET onPath == getPointOnPath(polygonPoints, progress)
        IN  boundaryPoint = <<onPath.x, onPath.y>>

\* the marker placed inside the closing edge of a six-vertex outline, where
\* getPointOnPath returns the same point
C29_Witness ==
    /\ Updated
    /\ AllEdgesPositive(vertices)
    /\ Len(vertices) = 6
    /\ boundaryPoint # <<>>
    /\ boundaryPoint[1] = Zero
    /\ Gt(boundaryPoint[2], Zero)
    /\ Lt(boundaryPoint[2], vertices[6].y)
    /\ boundaryPoint = <<getPointOnPath(polygonPoints, progress).x,
                         getPointOnPath(polygonPoints, progress).y>>

(***************************************************************************)
(* C30.  The stop of the boundary trace is final: while stop() is the      *)
(* page's last call on boundaryAnimation, with no init() and no            *)
(* startAnimation() called after it, no frame callback stays pending and   *)
(* no animate() runs, also when the stop() came while an earlier init()    *)
(* was still awaiting the polygon load.                                    *)
(***************************************************************************)
\* animate() ran in this step, to its end or to its TypeError
AnimateRan ==
    \/ AnimateDrew
    \/ lastError' = "TypeError" /\ lastError # "TypeError"

C30_StopIsFinal ==
    /\ [](stopCalled => pendingFrames = {})
    /\ [][(stopCalled /\ stopCalled') => ~AnimateRan]_vars

====
